---- MODULE Spec2Model ----
(***************************************************************************)
(* A model of the directive-to-resolver compiler of amplify-category-api:  *)
(*   - the secondary-index reconciler (updateTableForConnection),          *)
(*   - the singular-connection resolver synthesizer                        *)
(*     (makeGetItemConnectionWithKeyResolver) and the evaluation of the    *)
(*     request / response programs it generates,                          *)
(*   - the primary-key transformer (field / validate / transformSchema /   *)
(*     generateResolvers).                                                 *)
(* Strings of the program are TLA+ strings; concatenation is \o.           *)
(***************************************************************************)
EXTENDS Integers, Sequences, FiniteSets, TLC

VARIABLES
    \* ---- secondary-index reconciler ----
    respectPK,      \* ctx.transformParameters.respectPrimaryKeyAttributesOnConnectionField
    l2,             \* table.globalSecondaryIndexes (declarative list), per table
    l1,             \* table.table.globalSecondaryIndexes (raw list), per table
    l1IsArray,      \* whether the raw property currently holds an array
    cfg,            \* the long-lived HasManyDirectiveConfiguration object of each relation
    called,         \* relations updateTableForConnection has completed for (implicit configuration)
    lastCall,       \* the last updateTableForConnection call: its input and its outcome
    aborted,        \* an exception left updateTableForConnection: the compilation is over
    \* ---- singular-connection resolvers ----
    connSchema,     \* the @hasOne configurations of the schema, in visit order
    connPos,        \* the next configuration makeGetItemConnectionWithKeyResolver is called for
    connAborted,    \* makeGetItemConnectionWithKeyResolver threw: the compilation is over
    tableLookups,   \* how many times the generator has called getTable
    resolvers,      \* ctx.resolvers: "Type.field" -> the generated program pair
    inv,            \* the resolver invocation in progress at run time
    \* ---- key condensation, reconciler and synthesizer side by side ----
    keyInput,       \* an ordered list of sort-key field names
    declaredKey,    \* the sort key the reconciler declares for keyInput
    keyValueExpr,   \* the :sortKeyName value expression the synthesizer builds for keyInput
    \* ---- primary-key transformer ----
    pkSchema,       \* the object types of the schema, in document order
    pkPos,          \* the next @primaryKey directive the visitor hands to field()
    pkPhase,        \* "visit", "transformed", "generated", or "failed" after a throw
    pkError,        \* the message of the InvalidDirectiveError thrown, "" if none
    directiveList,  \* PrimaryKeyTransformer.directiveList
    pkValidated,    \* positions of the directives validate returned normally for
    schemaUpdated,  \* the configurations transformSchema has updated the schema for
    pkGenerated,    \* the configurations generateResolvers ran a generator for
    slotCalls       \* the addIndexToResolverSlot calls made so far, in call order

idxVars == <<respectPK, l2, l1, l1IsArray, cfg, called, lastCall, aborted>>

connVars == <<connSchema, connPos, connAborted, tableLookups, resolvers, inv>>

keyVars == <<keyInput, declaredKey, keyValueExpr>>

pkVars == <<pkSchema, pkPos, pkPhase, pkError, directiveList, pkValidated,
           schemaUpdated, pkGenerated, slotCalls>>

vars == <<idxVars, connVars, keyVars, pkVars>>

(***************************************************************************)
(* Bounds of the model.                                                    *)
(***************************************************************************)
\* indexes a table may already hold before the reconciler runs
MaxPreexisting == 1
\* longest related-type index (partition key plus sort key fields) of a @hasOne
MaxIndexLen == 3
\* @hasOne fields of one schema
MaxHasOne == 2
\* items and scanned count of a data source result
MaxItems == 2
MaxScanned == 2
\* sort-key fields of one key
MaxKeyFields == 3
\* names in the sortKeyFields argument of a @primaryKey directive
MaxSortKeyFields == 2

(***************************************************************************)
(* Sequence helpers.                                                       *)
(***************************************************************************)
Range(s) == {s[i] : i \in DOMAIN s}

\* Array.prototype.join on plain strings
RECURSIVE Join(_, _)
Join(parts, sep) ==
    IF Len(parts) = 0 THEN ""
    ELSE IF Len(parts) = 1 THEN parts[1]
    ELSE parts[1] \o sep \o Join(Tail(parts), sep)

Prefix(s, n) == SubSeq(s, 1, n)

\* the sequences of at most n different elements of S
DistinctSeqs(S, n) ==
    UNION { { s \in [1..k -> S] : \A i, j \in 1..k : i # j => s[i] # s[j] } : k \in 0..n }

(***************************************************************************)
(* The schema the reconciler works on.                                     *)
(***************************************************************************)
\* the model types, as getObjectPrimaryKey and getSortKeyFields see them
ObjectDefs ==
    [ Blog   |-> [ primaryKey |-> [name |-> "id",     type |-> "ID"],
                   sortKeyFields |-> <<>> ],
      Post   |-> [ primaryKey |-> [name |-> "postId", type |-> "Int"],
                   sortKeyFields |-> << [name |-> "title", type |-> "String"] >> ],
      Author |-> [ primaryKey |-> [name |-> "email",  type |-> "String"],
                   sortKeyFields |-> << [name |-> "first", type |-> "String"],
                                        [name |-> "age",   type |-> "Int"] >> ],
      Flag   |-> [ primaryKey |-> [name |-> "on",     type |-> "Boolean"],
                   sortKeyFields |-> <<>> ],
      Comment |-> [ primaryKey |-> [name |-> "id",    type |-> "ID"],
                    sortKeyFields |-> << [name |-> "date", type |-> "String"] >> ] ]

\* the @hasMany fields: object, field, related type
Relations ==
    { [object |-> "Blog",   field |-> "posts",    relatedType |-> "Post"],
      [object |-> "Post",   field |-> "comments", relatedType |-> "Comment"],
      [object |-> "Author", field |-> "books",    relatedType |-> "Post"],
      [object |-> "Flag",   field |-> "items",    relatedType |-> "Comment"],
      [object |-> "Blog",   field |-> "ghosts",   relatedType |-> "Ghost"] }

\* the related types that have a table
Tables == {"Post", "Comment"}

\* ctx.resourceHelper.getModelNameMapping: Post was renamed from Article
getModelNameMapping(name) == IF name = "Post" THEN "Article" ELSE name

LowerFirst ==
    [ Blog |-> "blog", Article |-> "article", Author |-> "author", Flag |-> "flag" ]

UpperFirst ==
    [ posts |-> "Posts", comments |-> "Comments", books |-> "Books",
      items |-> "Items", ghosts |-> "Ghosts",
      id |-> "Id", postId |-> "PostId", email |-> "Email", on |-> "On",
      title |-> "Title", first |-> "First", age |-> "Age" ]

\* toCamelCase([a, b, c])
toCamelCase(words) == LowerFirst[words[1]] \o UpperFirst[words[2]] \o UpperFirst[words[3]]

getConnectionAttributeName(respect, type, field, relatedTypeField) ==
    toCamelCase(<<type, field, IF respect THEN relatedTypeField ELSE "id">>)

attributeTypeFromTypeMutAllStrings(type) ==
    CASE type \in {"ID", "String", "Int", "Float"} -> "S"
      [] OTHER -> "THROW"

\* attributeTypeFromType; "THROW" stands for the exception it raises
attributeTypeFromType(type) ==
    CASE type \in {"ID", "String"} -> "S"
      [] type \in {"Int", "Float"} -> "N"
      [] OTHER -> "THROW"

(***************************************************************************)
(* Template strings.  A string the compiler builds is a sequence of        *)
(* segments: literal text, or a placeholder ${ctx.source.<field>} that the *)
(* template engine replaces with the field's value when the program runs.  *)
(***************************************************************************)
Lit(s) == [k |-> "lit", s |-> s]

Placeholder(f) == [k |-> "ref", s |-> f]

\* Array.prototype.join on template strings
RECURSIVE JoinSegs(_, _)
JoinSegs(parts, sep) ==
    IF Len(parts) = 0 THEN <<>>
    ELSE IF Len(parts) = 1 THEN parts[1]
    ELSE parts[1] \o sep \o JoinSegs(Tail(parts), sep)

\* the text of a template string as it stands in the generated program
RECURSIVE Text(_)
Text(segs) ==
    IF Len(segs) = 0 THEN ""
    ELSE (IF segs[1].k = "lit" THEN segs[1].s ELSE "${ctx.source." \o segs[1].s \o "}")
         \o Text(Tail(segs))

ModelCompositeKeySeparator == "#"

\* resolvers.ts condenseRangeKey
condenseRangeKey(fields) == JoinSegs(fields, << Lit(ModelCompositeKeySeparator) >>)

(***************************************************************************)
(* Secondary-index reconciler: resolvers.ts updateTableForConnection.      *)
(***************************************************************************)
\* an absent key (sortKey: undefined)
NoKey == [name |-> "", type |-> ""]

\* getConnectedSortKeyAttributeDefinitionsForImplicitHasManyObject
getConnectedSortKeyAttributeDefinitionsMutFirstOnly(respect, mappedObjectName, hasManyField, sortKeyFields) ==
    LET connectedSortKeyFieldNames ==
            [i \in DOMAIN sortKeyFields |->
                getConnectionAttributeName(respect, mappedObjectName, hasManyField,
                                           sortKeyFields[i].name)]
    IN  IF Len(sortKeyFields) = 0 THEN NoKey
        ELSE [name |-> connectedSortKeyFieldNames[1],
              type |-> attributeTypeFromType(sortKeyFields[1].type)]

getConnectedSortKeyAttributeDefinitions(respect, mappedObjectName, hasManyField, sortKeyFields) ==
    LET connectedSortKeyFieldNames ==
            [i \in DOMAIN sortKeyFields |->
                getConnectionAttributeName(respect, mappedObjectName, hasManyField,
                                           sortKeyFields[i].name)]
    IN  IF Len(sortKeyFields) = 0 THEN NoKey
        ELSE IF Len(connectedSortKeyFieldNames) = 1
             THEN [name |-> connectedSortKeyFieldNames[1],
                   type |-> attributeTypeFromType(sortKeyFields[1].type)]
        ELSE IF Len(sortKeyFields) > 1
             THEN [name |-> Text(condenseRangeKey([i \in DOMAIN connectedSortKeyFieldNames |->
                                                        << Lit(connectedSortKeyFieldNames[i]) >>])),
                   type |-> "S"]
        ELSE NoKey

\* the key schema Table.addGlobalSecondaryIndex derives from its props
KeySchemaOf(partitionKey, sortKey) ==
    << [attributeName |-> partitionKey.name, keyType |-> "HASH"] >>
    \o (IF sortKey = NoKey THEN <<>>
        ELSE << [attributeName |-> sortKey.name, keyType |-> "RANGE"] >>)

\* Table.addGlobalSecondaryIndex: the declarative list gains one entry
addGlobalSecondaryIndex(gsis, props) ==
    Append(gsis, [indexName    |-> props.indexName,
                  partitionKey |-> props.partitionKey,
                  sortKey      |-> props.sortKey,
                  keySchema    |-> KeySchemaOf(props.partitionKey, props.sortKey)])

appendIndexMutReplace(list, isArray, newIndex) == << newIndex >>

\* resolvers.ts appendIndex
appendIndex(list, isArray, newIndex) ==
    IF isArray THEN Append(list, newIndex) ELSE << newIndex >>

\* gsis.some(gsi => gsi.indexName === indexName)
HasIndexMutNever(gsis, indexName) == FALSE

HasIndex(gsis, indexName) == \E i \in DOMAIN gsis : gsis[i].indexName = indexName

\* gsis.find(gsi => gsi.indexName === indexName)
FindIndex(gsis, indexName) ==
    gsis[CHOOSE i \in DOMAIN gsis :
            /\ gsis[i].indexName = indexName
            /\ \A j \in DOMAIN gsis : gsis[j].indexName = indexName => i <= j]

\* `gsi-${mappedObjectName}.${field.name.value}`
DerivedIndexName(rel) == "gsi-" \o getModelNameMapping(rel.object) \o "." \o rel.field

\* the raw entry the reconciler appends for the declarative entry gsi
RawIndexMutKeySchema(indexName, gsi) ==
    [indexName |-> indexName, keySchema |-> << gsi.keySchema[1] >>]

RawIndex(indexName, gsi) == [indexName |-> indexName, keySchema |-> gsi.keySchema]

\* the guard of the early return
IsExplicitMutIndexOnly(config) == config.indexName # ""

IsExplicit(config) == config.indexName # "" \/ Len(config.fields) > 0

\* updateTableForConnection(config, ctx): what the call leaves behind.
\*   outcome: "noop"   returned at the first guard
\*            "exists" returned because the index is already there
\*            "added"  added the index to both lists
\*            "threw"  an exception left the function
Reconcile(config, rel, respect, gsis, rawList, rawIsArray) ==
    LET same == [outcome |-> "noop", config |-> config, lookedUp |-> FALSE,
                 l2 |-> gsis, l1 |-> rawList, l1IsArray |-> rawIsArray]
        mappedObjectName == getModelNameMapping(rel.object)
        indexName == DerivedIndexName(rel)
        named == [config EXCEPT !.indexName = indexName]
        pk == ObjectDefs[rel.object].primaryKey
        partitionKeyName == getConnectionAttributeName(respect, mappedObjectName, rel.field, pk.name)
        partitionKeyType == IF respect THEN attributeTypeFromType(pk.type) ELSE "S"
        sortKeyAttributeDefinitions ==
            IF respect
            THEN getConnectedSortKeyAttributeDefinitions(respect, mappedObjectName, rel.field,
                                                         ObjectDefs[rel.object].sortKeyFields)
            ELSE NoKey
        props == [indexName    |-> indexName,
                  partitionKey |-> [name |-> partitionKeyName, type |-> partitionKeyType],
                  sortKey      |-> sortKeyAttributeDefinitions]
        gsis2 == addGlobalSecondaryIndex(gsis, props)
        gsi == FindIndex(gsis2, indexName)
    IN  IF IsExplicit(config) THEN same
        ELSE IF rel.relatedType \notin Tables
             THEN [same EXCEPT !.outcome = "threw", !.lookedUp = TRUE]
        ELSE IF HasIndex(gsis, indexName)
             THEN [same EXCEPT !.outcome = "exists", !.config = named, !.lookedUp = TRUE]
        ELSE IF partitionKeyType = "THROW" \/ sortKeyAttributeDefinitions.type = "THROW"
             THEN [same EXCEPT !.outcome = "threw", !.config = named, !.lookedUp = TRUE]
        ELSE [outcome |-> "added", config |-> named, lookedUp |-> TRUE,
              l2 |-> gsis2,
              l1 |-> appendIndex(rawList, rawIsArray, RawIndex(indexName, gsi)),
              l1IsArray |-> TRUE]

\* a configuration without explicit index name or fields
ImplicitConfig == [indexName |-> "", fields |-> <<>>]

\* the configurations a caller may hand in that do not live in cfg
FreshConfigs ==
    { [indexName |-> "",       fields |-> <<>>],
      [indexName |-> "byBlog", fields |-> <<>>],
      [indexName |-> "",       fields |-> <<"blogId">>] }

TableOf(rel) == IF rel.relatedType \in Tables THEN rel.relatedType ELSE "Post"

\* one call of updateTableForConnection, with the relation's long-lived
\* configuration object (fresh = FALSE) or with a configuration built for the call
UpdateTableForConnection(rel, fresh, input) ==
    LET config == IF fresh THEN input ELSE cfg[rel]
        t == TableOf(rel)
        res == Reconcile(config, rel, respectPK, l2[t], l1[t], l1IsArray[t])
        counted == ~fresh \/ input = ImplicitConfig
    IN  /\ ~aborted
        /\ l2' = [l2 EXCEPT ![t] = res.l2]
        /\ l1' = [l1 EXCEPT ![t] = res.l1]
        /\ l1IsArray' = [l1IsArray EXCEPT ![t] = res.l1IsArray]
        /\ cfg' = IF fresh THEN cfg ELSE [cfg EXCEPT ![rel] = res.config]
        /\ called' = IF counted /\ res.outcome # "threw" THEN called \cup {rel} ELSE called
        /\ aborted' = (res.outcome = "threw")
        /\ lastCall' = [kind |-> "call", rel |-> rel, fresh |-> fresh,
                        before |-> config, after |-> res.config,
                        outcome |-> res.outcome, lookedUp |-> res.lookedUp,
                        repeat |-> (counted /\ rel \in called)]
        /\ UNCHANGED respectPK
        /\ UNCHANGED <<connVars, keyVars, pkVars>>

\* ---- initial state of the tables ----
PreexistingPool ==
    [ Post |-> { [indexName |-> "byTitle",
                  partitionKey |-> [name |-> "title", type |-> "S"], sortKey |-> NoKey],
                 [indexName |-> "gsi-Blog.posts",
                  partitionKey |-> [name |-> "blogPostsId", type |-> "S"], sortKey |-> NoKey] },
      Comment |-> { [indexName |-> "byDate",
                     partitionKey |-> [name |-> "postId", type |-> "N"],
                     sortKey |-> [name |-> "date", type |-> "S"]] } ]

RECURSIVE AddAll(_, _)
AddAll(gsis, propsSeq) ==
    IF Len(propsSeq) = 0 THEN gsis
    ELSE AddAll(addGlobalSecondaryIndex(gsis, propsSeq[1]), Tail(propsSeq))

NoCall == [kind |-> "none", rel |-> CHOOSE r \in Relations : TRUE, fresh |-> FALSE,
           before |-> ImplicitConfig, after |-> ImplicitConfig,
           outcome |-> "noop", lookedUp |-> FALSE, repeat |-> FALSE]

IdxIdle ==
    /\ respectPK = FALSE
    /\ l2 = [t \in Tables |-> <<>>]
    /\ l1 = [t \in Tables |-> <<>>]
    /\ l1IsArray = [t \in Tables |-> FALSE]
    /\ cfg = [r \in Relations |-> ImplicitConfig]
    /\ called = {}
    /\ lastCall = NoCall
    /\ aborted = FALSE

InitIndex ==
    /\ respectPK \in BOOLEAN
    /\ \E pre \in [Tables -> UNION {DistinctSeqs(PreexistingPool[t], MaxPreexisting) : t \in Tables}] :
          /\ \A t \in Tables : Range(pre[t]) \subseteq PreexistingPool[t]
          /\ l2 = [t \in Tables |-> AddAll(<<>>, pre[t])]
    /\ l1 = [t \in Tables |-> [i \in DOMAIN l2[t] |->
                [indexName |-> l2[t][i].indexName, keySchema |-> l2[t][i].keySchema]]]
    /\ l1IsArray \in [Tables -> BOOLEAN]
    /\ \A t \in Tables : Len(l2[t]) > 0 => l1IsArray[t]
    /\ cfg = [r \in Relations |-> ImplicitConfig]
    /\ called = {}
    /\ lastCall = NoCall
    /\ aborted = FALSE

NextIndex ==
    \E rel \in Relations :
        \/ UpdateTableForConnection(rel, FALSE, ImplicitConfig)
        \/ \E input \in FreshConfigs : UpdateTableForConnection(rel, TRUE, input)

(***************************************************************************)
(* Singular-connection resolver: resolvers.ts                              *)
(* makeGetItemConnectionWithKeyResolver, and the programs it generates.    *)
(***************************************************************************)
NONE_VALUE == "___xamznone____"

\* key fields of the related type, in index order, and their scalar types
RelatedKeyNames == << "id", "kind", "rank", "zone", "area" >>

RelatedKeyTypes == << "ID", "String", "Int", "String", "String" >>

\* local fields declared on the object (explicit `fields`), and the connection
\* fields the transformer generates when none are given
DeclaredLocalFields == << "fkId", "fkKind", "fkRank", "fkZone", "fkArea" >>

GeneratedLocalFields == << "ownerId", "ownerKind", "ownerRank", "ownerZone", "ownerArea" >>

HasOneFieldNames == << "rel0", "rel1", "rel2", "rel3", "rel4", "rel5" >>

\* a @hasOne configuration over a related-type index of n fields
HasOneConfig(n, explicit) ==
    [ object |-> "Project",
      field |-> HasOneFieldNames[n + 1] \o (IF explicit THEN "x" ELSE ""),
      fields |-> IF explicit THEN Prefix(DeclaredLocalFields, n) ELSE <<>>,
      connectionFields |-> IF explicit THEN <<>> ELSE Prefix(GeneratedLocalFields, n),
      relatedType |-> "Owner",
      relatedTypeIndex |-> Prefix(RelatedKeyNames, n) ]

HasOneConfigs ==
    { HasOneConfig(n, FALSE) : n \in {m \in 0..MaxIndexLen : m <= 2 \/ m % 2 = 0} }
    \cup { HasOneConfig(n, TRUE) : n \in {m \in 2..MaxIndexLen : m = 2 \/ m % 2 = 1} }

\* the scalar type of a field of the object, "absent" when it is not declared
FieldTypeInObject(fieldName) ==
    IF \E i \in DOMAIN DeclaredLocalFields : DeclaredLocalFields[i] = fieldName
    THEN RelatedKeyTypes[CHOOSE i \in DOMAIN DeclaredLocalFields : DeclaredLocalFields[i] = fieldName]
    ELSE "absent"

\* attributeTypeFromScalar
attributeTypeFromScalar(type) ==
    CASE type \in {"ID", "String"} -> "S"
      [] type \in {"Int", "Float"} -> "N"
      [] OTHER -> "THROW"

\* getTable(ctx, relatedType).keySchema: the partition key, then the sort key
\* attribute (the condensed name when several fields form the sort key)
TableKeySchema(relatedTypeIndex) ==
    IF Len(relatedTypeIndex) = 0 THEN <<>>
    ELSE << [attributeName |-> relatedTypeIndex[1]] >>
         \o (IF Len(relatedTypeIndex) = 1 THEN <<>>
             ELSE << [attributeName |->
                        Text(condenseRangeKey([i \in 1..(Len(relatedTypeIndex) - 1) |->
                                                  << Lit(relatedTypeIndex[i + 1]) >>]))] >>)

buildKeyValueExpressionMutByPosition(fieldName, isPartitionKey) ==
    LET fieldType == FieldTypeInObject(fieldName)
        attributeType == IF fieldType # "absent" THEN attributeTypeFromScalar(fieldType) ELSE "S"
    IN  [ kind |-> "keyValue",
          fn |-> IF (attributeType = "S") = (connPos = 1)
                 THEN "defaultIfNullOrBlank" ELSE "defaultIfNull",
          operand |-> IF isPartitionKey THEN << Lit("$partitionKeyValue") >>
                      ELSE << Lit("$ctx.source." \o fieldName) >>,
          fields |-> IF isPartitionKey THEN <<>> ELSE << fieldName >> ]

\* buildKeyValueExpression(fieldName, object, isPartitionKey)
buildKeyValueExpression(fieldName, isPartitionKey) ==
    LET fieldType == FieldTypeInObject(fieldName)
        attributeType == IF fieldType # "absent" THEN attributeTypeFromScalar(fieldType) ELSE "S"
    IN  [ kind |-> "keyValue",
          fn |-> IF attributeType = "S" THEN "defaultIfNullOrBlank" ELSE "defaultIfNull",
          operand |-> IF isPartitionKey THEN << Lit("$partitionKeyValue") >>
                      ELSE << Lit("$ctx.source." \o fieldName) >>,
          fields |-> IF isPartitionKey THEN <<>> ELSE << fieldName >> ]

\* fields.length > 0 ? fields : connectionFields
LocalFields(config) ==
    IF Len(config.fields) > 0 THEN config.fields ELSE config.connectionFields

\* rangeKeyFields = localFields.slice(1)
RangeKeyFieldsMutDropLast(localFields) == SubSeq(localFields, 2, Len(localFields) - 1)

RangeKeyFields(localFields) == Tail(localFields)

\* the value expression of the condensed sort key
CompositeSortKeyValueMutReversed(rangeKeyFields) ==
    [ kind |-> "composite", fn |-> "defaultIfNullOrBlank",
      operand |-> condenseRangeKey([i \in DOMAIN rangeKeyFields |->
                        << Placeholder(rangeKeyFields[Len(rangeKeyFields) + 1 - i]) >>]),
      fields |-> rangeKeyFields ]

CompositeSortKeyValue(rangeKeyFields) ==
    [ kind |-> "composite", fn |-> "defaultIfNullOrBlank",
      operand |-> condenseRangeKey([i \in DOMAIN rangeKeyFields |->
                        << Placeholder(rangeKeyFields[i]) >>]),
      fields |-> rangeKeyFields ]

\* the :sortKeyName entry of expressionValues for a related-type index of n
\* fields: none, the simple key value, or the condensed composite value
SortKeyValue(localFields, n) ==
    IF n > 2
    THEN << [name |-> ":sortKeyName",
             expr |-> CompositeSortKeyValue(RangeKeyFields(localFields))] >>
    ELSE IF n = 2
    THEN << [name |-> ":sortKeyName",
             expr |-> buildKeyValueExpression(localFields[2], FALSE)] >>
    ELSE <<>>

\* the fields whose null-ness makes the request program return early, after
\* the partition key value: localFields.slice(1)
NullCheckFields(localFields) == Tail(localFields)

\* the request / response program pair generated for config; the fixed
\* statements of the templates are the evaluators below
Program(config) ==
    LET localFields == LocalFields(config)
        keySchema == TableKeySchema(config.relatedTypeIndex)
        n == Len(config.relatedTypeIndex)
        composite == n > 2
        simple == n = 2
        sortExpr == IF composite \/ simple THEN << "#sortKeyName = :sortKeyName" >> ELSE <<>>
        sortName == IF composite \/ simple
                    THEN << [name |-> "#sortKeyName", value |-> keySchema[2].attributeName] >>
                    ELSE <<>>
        sortValue == SortKeyValue(localFields, n)
        totalExpressions == << "#partitionKey = :partitionValue" >> \o sortExpr
    IN  [ typeName |-> config.object,
          fieldName |-> config.field,
          dataSource |-> config.relatedType \o "Table",
          partitionField |-> localFields[1],
          nullCheckFields |-> NullCheckFields(localFields),
          expression |-> Join(totalExpressions, " AND "),
          expressionNames |-> << [name |-> "#partitionKey", value |-> keySchema[1].attributeName] >>
                              \o sortName,
          expressionValues |-> << [name |-> ":partitionValue",
                                   expr |-> buildKeyValueExpression(localFields[1], TRUE)] >>
                               \o sortValue ]

\* the text of one expressionValues entry: ref(`util.parseJson(...)`)
KeyValueText(expr) ==
    "$util.parseJson($util.dynamodb.toDynamoDBJson($util." \o expr.fn \o "("
        \o (IF expr.kind = "composite" THEN "\"" \o Text(expr.operand) \o "\""
            ELSE Text(expr.operand))
        \o ", \"" \o NONE_VALUE \o "\")))"

\* the request template handed to s3MappingTemplateFromString: the statements
\* of the compound expression in order, with the configuration's parts in place
RequestTemplateText(prog) ==
    "#if( $ctx.stash.deniedField ) #return($util.toJson(null)) #end "
    \o "#set( $partitionKeyValue = $util.defaultIfNull($ctx.stash.connectionAttibutes.get(\""
    \o prog.partitionField \o "\"), $ctx.source." \o prog.partitionField \o ") ) "
    \o "#if( "
    \o Join(<< "$util.isNull($partitionKeyValue)" >>
            \o [i \in DOMAIN prog.nullCheckFields |->
                  "$util.isNull($ctx.source." \o prog.nullCheckFields[i] \o ")"], " || ")
    \o " ) #return #else "
    \o "#set( $GetRequest = { \"version\": \"2018-05-29\", \"operation\": \"Query\" } ) "
    \o "$util.qr($GetRequest.put(\"query\", { \"expression\": \"" \o prog.expression \o "\", "
    \o "\"expressionNames\": { "
    \o Join([i \in DOMAIN prog.expressionNames |->
               "\"" \o prog.expressionNames[i].name \o "\": \""
                    \o prog.expressionNames[i].value \o "\""], ", ")
    \o " }, \"expressionValues\": { "
    \o Join([i \in DOMAIN prog.expressionValues |->
               "\"" \o prog.expressionValues[i].name \o "\": "
                    \o KeyValueText(prog.expressionValues[i].expr)], ", ")
    \o " } })) "
    \o "#if( !$util.isNullOrEmpty($ctx.stash.authFilter) ) "
    \o "$util.qr($GetRequest.put(\"filter\", $util.parseJson($util.transform.toDynamoDBFilterExpression($ctx.stash.authFilter)))) #end "
    \o "$util.toJson($GetRequest) #end"

\* the response template: dynamoDBResponse(false, ...) over fixed expressions
ResponseTemplateText(prog) ==
    "#if( $ctx.error ) $util.error($ctx.error.message, $ctx.error.type) #else "
    \o "#if( !$ctx.result.items.isEmpty() && $ctx.result.scannedCount == 1 ) "
    \o "$util.toJson($ctx.result.items[0]) #else "
    \o "#if( $ctx.result.items.isEmpty() && $ctx.result.scannedCount == 1 ) $util.unauthorized() #end "
    \o "$util.toJson(null) #end #end"

\* the names of the two template files
TemplateFileNames(prog) ==
    [ req |-> prog.typeName \o "." \o prog.fieldName \o ".req.vtl",
      res |-> prog.typeName \o "." \o prog.fieldName \o ".res.vtl" ]

\* ---- run-time values ----
VNull == [t |-> "null", v |-> ""]

VStr(s) == [t |-> "S", v |-> s]

VNum(s) == [t |-> "N", v |-> s]

ValuesOfType(type) ==
    IF type \in {"Int", "Float"} THEN {VNull, VNum("7")}
    ELSE {VNull, VStr(""), VStr("a")}

\* $util.isNull
isNull(v) == v = VNull

\* $util.defaultIfNull
defaultIfNullMutSecondFirst(v, d) == IF isNull(d) THEN v ELSE d

defaultIfNull(v, d) == IF isNull(v) THEN d ELSE v

\* $util.defaultIfNullOrBlank
defaultIfNullOrBlank(v, d) == IF isNull(v) \/ (v.t = "S" /\ v.v = "") THEN d ELSE v

\* $util.dynamodb.toDynamoDBJson: the JSON text of the typed attribute value
toDynamoDBJson(v) == [json |-> [attrType |-> v.t, attrValue |-> v.v]]

\* $util.parseJson
parseJson(text) == text.json

\* the template engine renders "...${ctx.source.f}..." with the values of source
RECURSIVE Interpolate(_, _)
Interpolate(segs, source) ==
    IF Len(segs) = 0 THEN ""
    ELSE (IF segs[1].k = "lit" THEN segs[1].s
          ELSE IF isNull(source[segs[1].s]) THEN "${ctx.source." \o segs[1].s \o "}"
          ELSE source[segs[1].s].v)
         \o Interpolate(Tail(segs), source)

\* the value of one expressionValues entry at run time
EvalKeyValue(expr, partitionKeyValue, source) ==
    LET raw == IF expr.kind = "composite" THEN VStr(Interpolate(expr.operand, source))
               ELSE IF Len(expr.fields) = 0 THEN partitionKeyValue
               ELSE source[expr.fields[1]]
        defaulted == IF expr.fn = "defaultIfNullOrBlank"
                     THEN defaultIfNullOrBlank(raw, VStr(NONE_VALUE))
                     ELSE defaultIfNull(raw, VStr(NONE_VALUE))
    IN  parseJson(toDynamoDBJson(defaulted))

\* ctx.stash.authFilter: absent, an empty filter, or a filter expression
AuthFilters == {"null", "empty", "ownerEq"}

\* $util.isNullOrEmpty
isNullOrEmptyMutNullOnly(x) == x = "null"

isNullOrEmpty(x) == x \in {"null", "empty"}

\* $util.transform.toDynamoDBFilterExpression: the JSON text of the store filter
toDynamoDBFilterExpression(filter) ==
    [json |-> [expression |-> "(#" \o filter \o " = :" \o filter \o ")", source |-> filter]]

NoRequest ==
    [version |-> "", operation |-> "", expression |-> "",
     expressionNames |-> <<>>, expressionValues |-> <<>>,
     hasFilter |-> FALSE, filter |-> [expression |-> "", source |-> ""]]

\* the or([...]) guard of the request program
AnyKeyNullMutSortOnly(partitionKeyValue, nullCheckFields, source) ==
    \E i \in DOMAIN nullCheckFields : isNull(source[nullCheckFields[i]])

AnyKeyNull(partitionKeyValue, nullCheckFields, source) ==
    \/ isNull(partitionKeyValue)
    \/ \E i \in DOMAIN nullCheckFields : isNull(source[nullCheckFields[i]])

\* the request program of prog run on ctx = [deniedField, connectionAttribute,
\* source, authFilter]
EvalRequest(prog, ctx) ==
    LET partitionKeyValue == defaultIfNull(ctx.connectionAttribute, ctx.source[prog.partitionField])
        GetRequest ==
            [version |-> "2018-05-29", operation |-> "Query",
             expression |-> prog.expression,
             expressionNames |-> prog.expressionNames,
             expressionValues |->
                [i \in DOMAIN prog.expressionValues |->
                    [name |-> prog.expressionValues[i].name,
                     value |-> EvalKeyValue(prog.expressionValues[i].expr,
                                            partitionKeyValue, ctx.source)]],
             hasFilter |-> ~isNullOrEmpty(ctx.authFilter),
             filter |-> IF ~isNullOrEmpty(ctx.authFilter)
                        THEN parseJson(toDynamoDBFilterExpression(ctx.authFilter))
                        ELSE NoRequest.filter]
    IN  IF ctx.deniedField
        THEN [kind |-> "return", request |-> NoRequest]
        ELSE IF AnyKeyNull(partitionKeyValue, prog.nullCheckFields, ctx.source)
        THEN [kind |-> "return", request |-> NoRequest]
        ELSE [kind |-> "query", request |-> GetRequest]

\* the test of the first branch of the response program
ItemFoundMutNoScanCheck(result) == Len(result.items) > 0

ItemFound(result) == Len(result.items) > 0 /\ result.scannedCount = 1

\* the test guarding $util.unauthorized()
FilteredOutMutAnyEmpty(result) == Len(result.items) = 0

FilteredOut(result) == Len(result.items) = 0 /\ result.scannedCount = 1

\* the response program run on result = [error, items, scannedCount]
EvalResponse(result) ==
    IF result.error THEN [kind |-> "error", item |-> ""]
    ELSE IF ItemFound(result) THEN [kind |-> "item", item |-> result.items[1]]
    ELSE IF FilteredOut(result) THEN [kind |-> "unauthorized", item |-> ""]
    ELSE [kind |-> "null", item |-> ""]

\* ---- the state machine of the generated resolvers ----
ItemNames == << "item1", "item2", "item3", "item4" >>

Results ==
    { [error |-> e, items |-> Prefix(ItemNames, n), scannedCount |-> c] :
        e \in BOOLEAN, n \in 0..MaxItems, c \in 0..MaxScanned }

\* the data source never scans fewer items than it returns
PossibleResults == { r \in Results : Len(r.items) <= r.scannedCount }

NoCtx == [deniedField |-> FALSE, connectionAttribute |-> VNull, source |-> <<>>,
          authFilter |-> "null"]

NoResult == [error |-> FALSE, items |-> <<>>, scannedCount |-> 0]

NoInvocation ==
    [stage |-> "idle", key |-> "", ctx |-> NoCtx,
     reqOut |-> [kind |-> "none", request |-> NoRequest],
     result |-> NoResult, resOut |-> [kind |-> "none", item |-> ""]]

ResolverKey(typeName, fieldName) == typeName \o "." \o fieldName

ConfigOfKey(key) ==
    CHOOSE c \in HasOneConfigs : ResolverKey(c.object, c.field) = key

\* the run-time type of the i-th local field is that of the i-th key field
SourcesOf(config) ==
    LET localFields == LocalFields(config)
    IN  { src \in [Range(localFields) -> UNION {ValuesOfType(ty) : ty \in Range(RelatedKeyTypes)}] :
            \A i \in DOMAIN localFields : src[localFields[i]] \in ValuesOfType(RelatedKeyTypes[i]) }

ContextsOf(config) ==
    { [deniedField |-> d, connectionAttribute |-> a, source |-> src, authFilter |-> f] :
        d \in BOOLEAN, a \in {VNull, VStr("c")}, src \in SourcesOf(config), f \in AuthFilters }

\* whether a call reaches getTable(ctx, relatedType): the check of the
\* related-type index throws before it
LooksUpTableMutBeforeCheck(config) == TRUE

LooksUpTable(config) == Len(config.relatedTypeIndex) # 0

\* makeGetItemConnectionWithKeyResolver(config, ctx) for the next configuration
MakeGetItemConnectionWithKeyResolver ==
    /\ ~connAborted
    /\ connPos <= Len(connSchema)
    /\ LET config == connSchema[connPos]
       IN  /\ tableLookups' = tableLookups + (IF LooksUpTable(config) THEN 1 ELSE 0)
           /\ IF Len(config.relatedTypeIndex) = 0
              THEN /\ connAborted' = TRUE
                   /\ UNCHANGED <<connPos, resolvers>>
              ELSE /\ resolvers' = (ResolverKey(config.object, config.field) :> Program(config))
                                       @@ resolvers
                   /\ connPos' = connPos + 1
                   /\ UNCHANGED connAborted
    /\ UNCHANGED <<connSchema, inv>>
    /\ UNCHANGED <<idxVars, keyVars, pkVars>>

\* AppSync runs the request program of a registered resolver
InvokeRequest ==
    /\ ~connAborted
    /\ connPos > Len(connSchema)
    /\ inv.stage = "idle"
    /\ \E key \in DOMAIN resolvers : \E ctx \in ContextsOf(ConfigOfKey(key)) :
          inv' = [NoInvocation EXCEPT !.stage = "request", !.key = key, !.ctx = ctx,
                                      !.reqOut = EvalRequest(resolvers[key], ctx)]
    /\ UNCHANGED <<connSchema, connPos, connAborted, tableLookups, resolvers>>
    /\ UNCHANGED <<idxVars, keyVars, pkVars>>

\* the data source answers the Query and AppSync runs the response program
InvokeResponse ==
    /\ inv.stage = "request"
    /\ inv.reqOut.kind = "query"
    /\ \E result \in PossibleResults :
          inv' = [NoInvocation EXCEPT !.stage = "response", !.key = inv.key,
                                      !.result = result, !.resOut = EvalResponse(result)]
    /\ UNCHANGED <<connSchema, connPos, connAborted, tableLookups, resolvers>>
    /\ UNCHANGED <<idxVars, keyVars, pkVars>>

\* the field's value has been handed to the caller: the invocation is over
FinishInvocation ==
    /\ \/ inv.stage = "response"
       \/ inv.stage = "request" /\ inv.reqOut.kind = "return"
    /\ inv' = NoInvocation
    /\ UNCHANGED <<connSchema, connPos, connAborted, tableLookups, resolvers>>
    /\ UNCHANGED <<idxVars, keyVars, pkVars>>

ConnIdle ==
    /\ connSchema = <<>>
    /\ connPos = 1
    /\ connAborted = FALSE
    /\ tableLookups = 0
    /\ resolvers = <<>>
    /\ inv = NoInvocation

InitConn ==
    /\ connSchema \in DistinctSeqs(HasOneConfigs, MaxHasOne)
    /\ connPos = 1
    /\ connAborted = FALSE
    /\ tableLookups = 0
    /\ resolvers = <<>>
    /\ inv = NoInvocation
    /\ IdxIdle
    /\ keyInput = <<>>
    /\ declaredKey = [name |-> "?", type |-> "?"]
    /\ keyValueExpr = << [name |-> "?", expr |-> [kind |-> "?", fn |-> "?", operand |-> <<>>, fields |-> <<>>]] >>
    /\ pkSchema = <<>> /\ pkPos = 1 /\ pkPhase = "visit" /\ pkError = ""
    /\ directiveList = <<>> /\ pkValidated = {} /\ schemaUpdated = <<>> /\ pkGenerated = <<>>
    /\ slotCalls = <<>>

NextConn ==
    \/ MakeGetItemConnectionWithKeyResolver
    \/ InvokeRequest
    \/ InvokeResponse
    \/ FinishInvocation

SpecConn == InitConn /\ [][NextConn]_vars

(***************************************************************************)
(* Key condensation: the reconciler's sort-key declaration and the         *)
(* synthesizer's sort-key value expression for one ordered field list.     *)
(***************************************************************************)
KeyFieldPool == {"title", "first", "age", "email"}

KeyFieldType(f) == IF f = "age" THEN "Int" ELSE "String"

NoDeclaredKey == [name |-> "?", type |-> "?"]

NoKeyValueExpr == << [name |-> "?", expr |-> [kind |-> "?", fn |-> "?", operand |-> <<>>, fields |-> <<>>]] >>

\* the reconciler declares the sort key of gsi-Author.books for keyInput
DeclareSortKey ==
    /\ declaredKey = NoDeclaredKey
    /\ declaredKey' = getConnectedSortKeyAttributeDefinitions(
                          TRUE, getModelNameMapping("Author"), "books",
                          [i \in DOMAIN keyInput |-> [name |-> keyInput[i], type |-> KeyFieldType(keyInput[i])]])
    /\ UNCHANGED <<keyInput, keyValueExpr>>
    /\ UNCHANGED <<idxVars, connVars, pkVars>>

\* the synthesizer builds the sort-key value for local fields <<pk>> \o keyInput
BuildSortKeyValue ==
    /\ keyValueExpr = NoKeyValueExpr
    /\ keyValueExpr' = SortKeyValue(<< "id" >> \o keyInput, 1 + Len(keyInput))
    /\ UNCHANGED <<keyInput, declaredKey>>
    /\ UNCHANGED <<idxVars, connVars, pkVars>>

KeysIdle ==
    /\ keyInput = <<>>
    /\ declaredKey = NoDeclaredKey
    /\ keyValueExpr = NoKeyValueExpr

InitKeys ==
    /\ keyInput \in DistinctSeqs(KeyFieldPool, MaxKeyFields)
    /\ Len(keyInput) >= 1
    /\ declaredKey = NoDeclaredKey
    /\ keyValueExpr = NoKeyValueExpr
    /\ IdxIdle /\ ConnIdle
    /\ pkSchema = <<>> /\ pkPos = 1 /\ pkPhase = "visit" /\ pkError = ""
    /\ directiveList = <<>> /\ pkValidated = {} /\ schemaUpdated = <<>> /\ pkGenerated = <<>>
    /\ slotCalls = <<>>

NextKeys == DeclareSortKey \/ BuildSortKeyValue

SpecKeys == InitKeys /\ [][NextKeys]_vars

(***************************************************************************)
(* Primary-key transformer: PrimaryKeyTransformer.field, validate,         *)
(* transformSchema, generateResolvers.                                     *)
(***************************************************************************)
directiveName == "primaryKey"

\* GraphQL field types: the named type's kind, wrapped in a list or not,
\* non-null (outermost) or not
TypeIDNonNull     == [base |-> "scalar", list |-> FALSE, nonNull |-> TRUE]
TypeStringNonNull == [base |-> "scalar", list |-> FALSE, nonNull |-> TRUE]
TypeString        == [base |-> "scalar", list |-> FALSE, nonNull |-> FALSE]
TypeStringList    == [base |-> "scalar", list |-> TRUE,  nonNull |-> TRUE]
TypeObject        == [base |-> "object", list |-> FALSE, nonNull |-> TRUE]
TypeEnum          == [base |-> "enum",   list |-> FALSE, nonNull |-> TRUE]
TypeObjectNullable == [base |-> "object", list |-> FALSE, nonNull |-> FALSE]

FieldTypes == {TypeIDNonNull, TypeString, TypeStringList, TypeObject, TypeEnum, TypeObjectNullable}

isNonNullType(type) == type.nonNull

isListType(type) == type.list

isScalarOrEnum(type) == type.base \in {"scalar", "enum"}

\* the sortKeyFields argument as written on the directive: absent, one
\* string, or a list of strings
ArgAbsent == [kind |-> "absent", names |-> <<>>]

ArgSingle(name) == [kind |-> "single", names |-> << name >>]

ArgList(names) == [kind |-> "list", names |-> names]

\* the type of end-to-end scenario 1
OrderType ==
    [ name |-> "Order", hasModel |-> TRUE,
      fields |-> << [name |-> "id", type |-> TypeIDNonNull, primaryKey |-> TRUE,
                     sortKeyFields |-> ArgList(<< "createdAt" >>), owner |-> FALSE],
                    [name |-> "createdAt", type |-> TypeStringNonNull, primaryKey |-> FALSE,
                     sortKeyFields |-> ArgAbsent, owner |-> FALSE] >> ]

SortKeyNames == {"id", "a", "b", "zz"}

\* type Thing { id: <pkType> @primaryKey[(sortKeyFields: skf)]  a: <aType>
\*              b: ID! [@primaryKey] }, with or without @model; a may be the
\* owner field of an @auth rule
ThingType(hasModel, pkType, aType, aOwner, bPrimaryKey, skf) ==
    [ name |-> "Thing", hasModel |-> hasModel,
      fields |-> << [name |-> "id", type |-> pkType, primaryKey |-> TRUE,
                     sortKeyFields |-> skf, owner |-> FALSE],
                    [name |-> "a", type |-> aType, primaryKey |-> FALSE,
                     sortKeyFields |-> ArgAbsent, owner |-> aOwner],
                    [name |-> "b", type |-> TypeIDNonNull, primaryKey |-> bPrimaryKey,
                     sortKeyFields |-> ArgAbsent, owner |-> FALSE] >> ]

SortKeyFieldsArgs ==
    {ArgAbsent} \cup { ArgSingle(n) : n \in SortKeyNames }
    \cup { ArgList(names) : names \in UNION { [1..k -> SortKeyNames] : k \in 0..MaxSortKeyFields } }

ThingTypes ==
    { ThingType(m, pkT, aT, o, bpk, skf) :
        m \in BOOLEAN, pkT \in FieldTypes, aT \in FieldTypes, o \in BOOLEAN, bpk \in BOOLEAN,
        skf \in SortKeyFieldsArgs }

\* the @primaryKey directives of a schema in visit order: (type index, field index)
RECURSIVE DirectivesFrom(_, _, _)
DirectivesFrom(schema, ti, fi) ==
    IF ti > Len(schema) THEN <<>>
    ELSE IF fi > Len(schema[ti].fields) THEN DirectivesFrom(schema, ti + 1, 1)
    ELSE (IF schema[ti].fields[fi].primaryKey THEN << [ti |-> ti, fi |-> fi] >> ELSE <<>>)
         \o DirectivesFrom(schema, ti, fi + 1)

Directives(schema) == DirectivesFrom(schema, 1, 1)

\* field(): an absent sortKeyFields becomes [], a single value a one-element list
NormalizeSortKeyFields(arg) ==
    IF arg.kind = "absent" THEN <<>>
    ELSE IF arg.kind # "list" THEN << arg.names[1] >>
    ELSE arg.names

\* the arguments field() hands to validate
ConfigAt(schema, d) ==
    [ object |-> schema[d.ti],
      field |-> schema[d.ti].fields[d.fi],
      sortKeyFields |-> NormalizeSortKeyFields(schema[d.ti].fields[d.fi].sortKeyFields),
      sortKey |-> <<>> ]

\* utils validateNotSelfReferencing: "" when it returns
validateNotSelfReferencing(config) ==
    IF \E i \in DOMAIN config.sortKeyFields : config.sortKeyFields[i] = config.field.name
    THEN "@" \o directiveName \o " field '" \o config.field.name \o "' cannot reference itself."
    ELSE ""

\* utils validateNotOwnerAuth: FALSE when the field is an owner field of an @auth rule
validateNotOwnerAuth(sortKeyFieldName, config) ==
    ~ \E i \in DOMAIN config.object.fields :
         /\ config.object.fields[i].name = sortKeyFieldName
         /\ config.object.fields[i].owner

\* fieldMap.get(name) is defined
HasFieldMutAlways(object, name) == TRUE

HasField(object, name) == \E i \in DOMAIN object.fields : object.fields[i].name = name

\* what fieldMap.get gives for a name that was never set
UndefinedField ==
    [name |-> "undefined", type |-> TypeStringNonNull, primaryKey |-> FALSE,
     sortKeyFields |-> ArgAbsent, owner |-> FALSE]

\* fieldMap.get(name)
FieldNamed(object, name) ==
    IF \E i \in DOMAIN object.fields : object.fields[i].name = name
    THEN object.fields[CHOOSE i \in DOMAIN object.fields :
                          /\ object.fields[i].name = name
                          /\ \A j \in DOMAIN object.fields : object.fields[j].name = name => j <= i]
    ELSE UndefinedField

\* object.directives.find(directive => directive.name.value === 'model')
HasModelDirectiveMutAlways(object) == TRUE

HasModelDirective(object) == object.hasModel

\* some field other than the annotated one carries a @primaryKey directive
HasOtherPrimaryKeyMutEarlierOnly(object, field) ==
    \E i \in DOMAIN object.fields :
        /\ object.fields[i] # field /\ object.fields[i].primaryKey
        /\ \E j \in DOMAIN object.fields : j > i /\ object.fields[j] = field

HasOtherPrimaryKey(object, field) ==
    \E i \in DOMAIN object.fields : object.fields[i] # field /\ object.fields[i].primaryKey

\* !isScalarOrEnum(type, enums) || isListType(type)
IsInvalidKeyTypeMutScalarOnly(type) == ~isScalarOrEnum(type)

IsInvalidKeyType(type) == ~isScalarOrEnum(type) \/ isListType(type)

\* !validateNotOwnerAuth(sortKeyFieldName, config, ctx)
IsOwnerConflictMutNever(sortKeyFieldName, config) == FALSE

IsOwnerConflict(sortKeyFieldName, config) == ~validateNotOwnerAuth(sortKeyFieldName, config)

\* config.sortKey.push(sortField)
PushSortKeyMutFront(sortKey, sortField) == << sortField.name >> \o sortKey

PushSortKey(sortKey, sortField) == Append(sortKey, sortField.name)

\* the loop over sortKeyFields of validate, from the k-th name on
RECURSIVE ValidateSortKeys(_, _, _)
ValidateSortKeys(config, k, sortKey) ==
    IF k > Len(config.sortKeyFields) THEN [error |-> "", sortKey |-> sortKey]
    ELSE
      LET sortKeyFieldName == config.sortKeyFields[k]
          object == config.object
      IN  IF ~HasField(object, sortKeyFieldName)
          THEN [error |-> "Can't find field '" \o sortKeyFieldName \o "' in " \o object.name
                          \o ", but it was specified in the primary key.",
                sortKey |-> sortKey]
          ELSE
            LET sortField == FieldNamed(object, sortKeyFieldName)
            IN  IF IsInvalidKeyType(sortField.type)
                THEN [error |-> "The primary key's sort key on type '" \o object.name \o "."
                                \o sortField.name \o "' cannot be a non-scalar.",
                      sortKey |-> sortKey]
                ELSE IF ~isNonNullType(sortField.type)
                THEN [error |-> "The primary key on type '" \o object.name
                                \o "' must reference non-null fields.",
                      sortKey |-> sortKey]
                ELSE IF IsOwnerConflict(sortKeyFieldName, config)
                THEN [error |-> "The primary key's sort key type '" \o sortKeyFieldName
                                \o "' cannot be used as an owner @auth field too. Please use another field for the sort key.",
                      sortKey |-> sortKey]
                ELSE ValidateSortKeys(config, k + 1, PushSortKey(sortKey, sortField))

\* validate(config, ctx): the message of the error thrown ("" when it returns)
\* and config.sortKey as the call leaves it
validateMutTypeBeforeNullable(config) ==
    LET object == config.object
        field == config.field
        selfRef == validateNotSelfReferencing(config)
        none == [error |-> "", sortKey |-> <<>>]
    IN  IF selfRef # "" THEN [none EXCEPT !.error = selfRef]
        ELSE IF ~HasModelDirective(object)
        THEN [none EXCEPT !.error = "The @" \o directiveName
                 \o " directive may only be added to object definitions annotated with @model."]
        ELSE IF HasOtherPrimaryKey(object, field)
        THEN [none EXCEPT !.error = "You may only supply one primary key on type '"
                                      \o object.name \o "'."]
        ELSE IF IsInvalidKeyType(field.type)
        THEN [none EXCEPT !.error = "The primary key on type '" \o object.name \o "."
                                      \o field.name \o "' cannot be a non-scalar."]
        ELSE IF ~isNonNullType(field.type)
        THEN [none EXCEPT !.error = "The primary key on type '" \o object.name
                                      \o "' must reference non-null fields."]
        ELSE ValidateSortKeys(config, 1, <<>>)

validate(config) ==
    LET object == config.object
        field == config.field
        selfRef == validateNotSelfReferencing(config)
        none == [error |-> "", sortKey |-> <<>>]
    IN  IF selfRef # "" THEN [none EXCEPT !.error = selfRef]
        ELSE IF ~HasModelDirective(object)
        THEN [none EXCEPT !.error = "The @" \o directiveName
                 \o " directive may only be added to object definitions annotated with @model."]
        ELSE IF HasOtherPrimaryKey(object, field)
        THEN [none EXCEPT !.error = "You may only supply one primary key on type '"
                                      \o object.name \o "'."]
        ELSE IF ~isNonNullType(field.type)
        THEN [none EXCEPT !.error = "The primary key on type '" \o object.name
                                      \o "' must reference non-null fields."]
        ELSE IF IsInvalidKeyType(field.type)
        THEN [none EXCEPT !.error = "The primary key on type '" \o object.name \o "."
                                      \o field.name \o "' cannot be a non-scalar."]
        ELSE ValidateSortKeys(config, 1, <<>>)

\* field(): validate(args, context); this.directiveList.push(args)
CollectMutBeforeValidate(list, config, res) ==
    Append(list, [config EXCEPT !.sortKey = res.sortKey])

Collect(list, config, res) ==
    IF res.error # "" THEN list
    ELSE Append(list, [config EXCEPT !.sortKey = res.sortKey])

\* the visitor hands the next @primaryKey directive to field()
Field ==
    /\ pkPhase = "visit"
    /\ pkPos <= Len(Directives(pkSchema))
    /\ LET config == ConfigAt(pkSchema, Directives(pkSchema)[pkPos])
           res == validate(config)
       IN  /\ directiveList' = Collect(directiveList, config, res)
           /\ pkError' = res.error
           /\ pkPhase' = IF res.error # "" THEN "failed" ELSE "visit"
           /\ pkPos' = IF res.error # "" THEN pkPos ELSE pkPos + 1
           /\ pkValidated' = IF res.error # "" THEN pkValidated ELSE pkValidated \cup {pkPos}
    /\ UNCHANGED <<pkSchema, schemaUpdated, pkGenerated, slotCalls>>
    /\ UNCHANGED <<idxVars, connVars, keyVars>>

ConfigKey(config) == config.object.name \o "." \o config.field.name

\* the transformer framework starts the transform-schema step once every
\* directive has been visited without error
VisitsComplete == pkPhase = "visit" /\ pkPos > Len(Directives(pkSchema))

\* transformSchema: the schema updates for every collected configuration
TransformSchema ==
    /\ VisitsComplete
    /\ schemaUpdated' = [i \in DOMAIN directiveList |-> ConfigKey(directiveList[i])]
    /\ pkPhase' = "transformed"
    /\ UNCHANGED <<pkSchema, pkPos, pkError, directiveList, pkValidated, pkGenerated, slotCalls>>
    /\ UNCHANGED <<idxVars, connVars, keyVars>>

\* getVTLGenerator(dbInfo); dbInfo "none" is an absent datasource entry
getVTLGeneratorMutAbsentIsRDS(dbInfo) ==
    IF dbInfo \in {"none", "MySQL"} THEN "RDSPrimaryKeyVTLGenerator"
    ELSE "DynamoDBPrimaryKeyVTLGenerator"

getVTLGenerator(dbInfo) ==
    LET dbType == IF dbInfo # "none" THEN dbInfo ELSE "DDB"
    IN  IF dbType = "MySQL" THEN "RDSPrimaryKeyVTLGenerator"
        ELSE "DynamoDBPrimaryKeyVTLGenerator"

DatasourceEntries == {"none", "DDB", "MySQL"}

\* the operations updateResolvers looks a resolver up for, in the order it
\* handles them
Operations == << "get", "list", "create", "update", "delete" >>

\* getResolverObject(config, ctx, op): "" when the lookup gives no resolver.
\* existing is the set of operations the type's @model directive generates a
\* resolver for; with sharedNames the @model directives of the types give
\* their operations the same custom names
getResolverObject(config, op, existing, sharedNames) ==
    IF op \notin existing THEN ""
    ELSE (IF op \in {"get", "list"} THEN "Query." ELSE "Mutation.")
         \o op \o (IF sharedNames THEN "Item" ELSE config.object.name)

Snippet(kind) == [kind |-> kind, keys |-> <<>>]

\* RDSPrimaryKeyVTLGenerator.setPrimaryKeySnippet: keys = [field, ...sortKeyFields]
setPrimaryKeySnippetMutSortKeysFirst(config) ==
    [kind |-> "set-key", keys |-> config.sortKeyFields \o << config.field.name >>]

setPrimaryKeySnippet(config) ==
    [kind |-> "set-key", keys |-> << config.field.name >> \o config.sortKeyFields]

\* RDSPrimaryKeyVTLGenerator.updateResolvers: the lines given to
\* addIndexToResolverSlot for one operation
RDSSnippetsMutSetKeyFirst(config, op) ==
    IF op = "get" THEN << setPrimaryKeySnippet(config) >>
    ELSE IF op = "list" THEN << setPrimaryKeySnippet(config), Snippet("sort-direction-validation") >>
    ELSE IF op = "delete" THEN << setPrimaryKeySnippet(config), Snippet("merge-defaults") >>
    ELSE << setPrimaryKeySnippet(config), Snippet("merge-defaults"),
            Snippet("ensure-composite-key") >>

RDSSnippetsMutDeleteEnsures(config, op) ==
    IF op = "get" THEN << setPrimaryKeySnippet(config) >>
    ELSE IF op = "list" THEN << setPrimaryKeySnippet(config), Snippet("sort-direction-validation") >>
    ELSE << Snippet("merge-defaults"), setPrimaryKeySnippet(config),
            Snippet("ensure-composite-key") >>

RDSSnippets(config, op) ==
    IF op = "get" THEN << setPrimaryKeySnippet(config) >>
    ELSE IF op = "list" THEN << setPrimaryKeySnippet(config), Snippet("sort-direction-validation") >>
    ELSE IF op = "delete" THEN << Snippet("merge-defaults"), setPrimaryKeySnippet(config) >>
    ELSE << Snippet("merge-defaults"), setPrimaryKeySnippet(config),
            Snippet("ensure-composite-key") >>

\* DynamoDBPrimaryKeyVTLGenerator: the lines for one operation
DynamoDBSnippets(config, op) ==
    IF op = "get" THEN << Snippet("ensure-composite-key"), Snippet("get-key") >>
    ELSE IF op = "list" THEN << Snippet("key-condition") >>
    ELSE << Snippet("merge-defaults"), Snippet("ensure-composite-key") >>

\* vtlGenerator.generate(config, ctx, resolverMap): the addIndexToResolverSlot
\* calls of one generator run, one per operation that has a resolver
RECURSIVE GenerateFrom(_, _, _, _, _)
GenerateFrom(config, generator, existing, sharedNames, k) ==
    IF k > Len(Operations) THEN <<>>
    ELSE
      LET op == Operations[k]
          resolver == getResolverObject(config, op, existing, sharedNames)
          lines == IF generator = "RDSPrimaryKeyVTLGenerator" THEN RDSSnippets(config, op)
                   ELSE DynamoDBSnippets(config, op)
      IN  (IF resolver = "" THEN <<>>
           ELSE << [resolver |-> resolver, op |-> op, config |-> ConfigKey(config),
                    generator |-> generator, lines |-> lines] >>)
          \o GenerateFrom(config, generator, existing, sharedNames, k + 1)

\* the loop of generateResolvers from the i-th collected configuration on
RECURSIVE GenerateAllFrom(_, _, _, _, _)
GenerateAllFrom(list, modelToDatasourceMap, existing, sharedNames, i) ==
    IF i > Len(list) THEN <<>>
    ELSE GenerateFrom(list[i], getVTLGenerator(modelToDatasourceMap[list[i].object.name]),
                      existing, sharedNames, 1)
         \o GenerateAllFrom(list, modelToDatasourceMap, existing, sharedNames, i + 1)

\* addIndexToResolverSlot appends to the resolver's slot: the slot holds the
\* snippets of the calls on that resolver, in call order
RECURSIVE SlotFrom(_, _, _)
SlotFrom(calls, resolver, k) ==
    IF k > Len(calls) THEN <<>>
    ELSE (IF calls[k].resolver # resolver THEN <<>>
          ELSE [n \in DOMAIN calls[k].lines |->
                  [config |-> calls[k].config, kind |-> calls[k].lines[n].kind,
                   keys |-> calls[k].lines[n].keys]])
         \o SlotFrom(calls, resolver, k + 1)

SlotOf(resolver) == SlotFrom(slotCalls, resolver, 1)

\* generateResolvers: one generator run for every collected configuration
GenerateResolvers ==
    /\ pkPhase = "transformed"
    /\ \E modelToDatasourceMap \in [{"Order", "Thing"} -> DatasourceEntries],
          existing \in SUBSET Range(Operations),
          sharedNames \in BOOLEAN :
          /\ sharedNames => Len(directiveList) > 1
          /\ pkGenerated' = [i \in DOMAIN directiveList |->
                               [config |-> ConfigKey(directiveList[i]),
                                dbInfo |-> modelToDatasourceMap[directiveList[i].object.name],
                                existing |-> existing,
                                generator |-> getVTLGenerator(
                                    modelToDatasourceMap[directiveList[i].object.name])]]
          /\ slotCalls' = slotCalls \o GenerateAllFrom(directiveList, modelToDatasourceMap,
                                                      existing, sharedNames, 1)
    /\ pkPhase' = "generated"
    /\ UNCHANGED <<pkSchema, pkPos, pkError, directiveList, pkValidated, schemaUpdated>>
    /\ UNCHANGED <<idxVars, connVars, keyVars>>

PkIdle ==
    /\ pkSchema = <<>>
    /\ pkPos = 1
    /\ pkPhase = "visit"
    /\ pkError = ""
    /\ directiveList = <<>>
    /\ pkValidated = {}
    /\ schemaUpdated = <<>>
    /\ pkGenerated = <<>>
    /\ slotCalls = <<>>

InitPK ==
    /\ \E thing \in ThingTypes : pkSchema \in { << thing >>, << OrderType, thing >> }
    /\ pkPos = 1
    /\ pkPhase = "visit"
    /\ pkError = ""
    /\ directiveList = <<>>
    /\ pkValidated = {}
    /\ schemaUpdated = <<>>
    /\ pkGenerated = <<>>
    /\ slotCalls = <<>>
    /\ IdxIdle /\ ConnIdle /\ KeysIdle

NextPK == Field \/ TransformSchema \/ GenerateResolvers

SpecPK == InitPK /\ [][NextPK]_vars

InitIndexAll == InitIndex /\ ConnIdle /\ KeysIdle /\ PkIdle

SpecIndex == InitIndexAll /\ [][NextIndex]_vars

(***************************************************************************)
(* Properties                                                              *)
(***************************************************************************)
CountIndex(gsis, indexName) ==
    Cardinality({i \in DOMAIN gsis : gsis[i].indexName = indexName})

\* C1: index reconciliation is idempotent. Once updateTableForConnection has
\* completed for a relation (with the relation's own configuration object or
\* with a fresh implicit one), the declarative list of the related table holds
\* exactly one index of the derived name, and a second or later call for the
\* relation does not fail and changes neither list.
C1_Idempotent ==
    /\ [](\A r \in called : CountIndex(l2[TableOf(r)], DerivedIndexName(r)) = 1)
    /\ [][lastCall'.repeat =>
            /\ lastCall'.outcome \in {"noop", "exists"}
            /\ l2' = l2 /\ l1' = l1 /\ l1IsArray' = l1IsArray]_vars

\* a relation reconciled first through its own object, then again with a fresh
\* equal configuration: the second call found the index
C1_Witness ==
    /\ lastCall.kind = "call" /\ lastCall.repeat /\ lastCall.fresh
    /\ lastCall.outcome = "exists"
    /\ cfg[lastCall.rel].indexName = DerivedIndexName(lastCall.rel)
    /\ CountIndex(l2[TableOf(lastCall.rel)], DerivedIndexName(lastCall.rel)) = 1

\* C2: the declarative and the raw index list stay pairwise consistent: every
\* declarative entry has a raw entry of the same name and key schema, and both
\* lists hold the same index names.
C2_ListsConsistent ==
    \A t \in Tables :
        /\ \A i \in DOMAIN l2[t] : \E j \in DOMAIN l1[t] :
                /\ l1[t][j].indexName = l2[t][i].indexName
                /\ l1[t][j].keySchema = l2[t][i].keySchema
        /\ {l1[t][j].indexName : j \in DOMAIN l1[t]} = {l2[t][i].indexName : i \in DOMAIN l2[t]}

\* an index with a sort key was added to a table that already held one
C2_Witness ==
    /\ lastCall.kind = "call" /\ lastCall.outcome = "added"
    /\ LET gsis == l2[TableOf(lastCall.rel)]
       IN  /\ Len(gsis) >= 2
           /\ gsis[Len(gsis)].indexName = DerivedIndexName(lastCall.rel)
           /\ Len(gsis[Len(gsis)].keySchema) = 2

\* C3: a call whose configuration names an index or lists key fields is a
\* no-op: both index lists and the configuration stay as they are and the table
\* is not looked up.
C3_ExplicitIsNoOp ==
    [][(lastCall'.kind = "call" /\ (lastCall'.before.indexName # "" \/ Len(lastCall'.before.fields) > 0)) =>
            /\ l2' = l2 /\ l1' = l1 /\ l1IsArray' = l1IsArray
            /\ cfg' = cfg
            /\ lastCall'.after = lastCall'.before
            /\ ~lastCall'.lookedUp
            /\ lastCall'.outcome = "noop"]_vars

\* explicit key fields on a relation whose related type has no table: the call
\* returned without looking the table up
C3_Witness ==
    /\ lastCall.kind = "call" /\ lastCall.fresh
    /\ Len(lastCall.before.fields) > 0
    /\ lastCall.rel.relatedType \notin Tables
    /\ lastCall.outcome = "noop" /\ ~aborted

\* C4: for a result without data-source error the response program raises
\* unauthorized exactly when the item list is empty and scannedCount is 1.
C4_UnauthorizedExactly ==
    (inv.stage = "response" /\ ~inv.result.error) =>
        (inv.resOut.kind = "unauthorized"
            <=> (Len(inv.result.items) = 0 /\ inv.result.scannedCount = 1))

C4_Witness ==
    /\ inv.stage = "response" /\ ~inv.result.error
    /\ inv.resOut.kind = "unauthorized"
    /\ Len(inv.result.items) = 0 /\ inv.result.scannedCount = 1

\* C5: the response program returns the item exactly when the result holds one
\* item and scannedCount is 1, raises unauthorized for the empty result with
\* scannedCount 1, and returns null for every other result shape.
C5_ThreeOutcomes ==
    (inv.stage = "response" /\ ~inv.result.error) =>
        LET one == Len(inv.result.items) = 1 /\ inv.result.scannedCount = 1
            filtered == Len(inv.result.items) = 0 /\ inv.result.scannedCount = 1
        IN  /\ inv.resOut.kind \in {"item", "unauthorized", "null"}
            /\ inv.resOut.kind = "item" <=> one
            /\ one => inv.resOut.item = inv.result.items[1]
            /\ (~one /\ ~filtered) <=> inv.resOut.kind = "null"

\* several items scanned and returned: the answer is null
C5_Witness ==
    /\ inv.stage = "response" /\ ~inv.result.error
    /\ Len(inv.result.items) >= 1 /\ inv.result.scannedCount > 1
    /\ inv.resOut.kind = "null"

\* the sort-key source fields of a resolver, from its configuration
SortSourceFields(key) ==
    LET c == ConfigOfKey(key)
        lf == IF Len(c.fields) > 0 THEN c.fields ELSE c.connectionFields
    IN  [i \in 1..(Len(lf) - 1) |-> lf[i + 1]]

PartitionSourceField(key) ==
    LET c == ConfigOfKey(key)
    IN  (IF Len(c.fields) > 0 THEN c.fields ELSE c.connectionFields)[1]

AllRelationFieldsNull(key, ctx) ==
    /\ ctx.connectionAttribute = VNull
    /\ ctx.source[PartitionSourceField(key)] = VNull
    /\ \A i \in DOMAIN SortSourceFields(key) : ctx.source[SortSourceFields(key)[i]] = VNull

\* C6: when the resolved partition-key value and every sort-key source field
\* are null, the request program returns early and builds no Query.
C6_AllNullReturnsEarly ==
    (inv.stage = "request" /\ AllRelationFieldsNull(inv.key, inv.ctx)) =>
        /\ inv.reqOut.kind = "return"
        /\ inv.reqOut.request = NoRequest

C6_Witness ==
    /\ inv.stage = "request" /\ ~inv.ctx.deniedField
    /\ AllRelationFieldsNull(inv.key, inv.ctx)
    /\ Len(SortSourceFields(inv.key)) >= 1
    /\ inv.reqOut.kind = "return"

\* C7: an issued Query carries a filter exactly when ctx.stash.authFilter is
\* present and non-empty, and the filter is the stashed expression converted
\* to a store filter.
C7_FilterIffStashed ==
    (inv.stage = "request" /\ inv.reqOut.kind = "query") =>
        /\ inv.reqOut.request.hasFilter <=> inv.ctx.authFilter \notin {"null", "empty"}
        /\ inv.reqOut.request.hasFilter =>
              inv.reqOut.request.filter =
                  [expression |-> "(#" \o inv.ctx.authFilter \o " = :" \o inv.ctx.authFilter \o ")",
                   source |-> inv.ctx.authFilter]
        /\ ~inv.reqOut.request.hasFilter => inv.reqOut.request.filter = NoRequest.filter

C7_Witness ==
    /\ inv.stage = "request" /\ inv.reqOut.kind = "query"
    /\ inv.ctx.authFilter = "ownerEq"
    /\ inv.reqOut.request.hasFilter

\* strs[1] # strs[2] # ... # strs[n]: one separator between neighbours, none at the ends
RECURSIVE SepJoined(_)
SepJoined(strs) ==
    IF Len(strs) = 0 THEN ""
    ELSE IF Len(strs) = 1 THEN strs[1]
    ELSE SepJoined(SubSeq(strs, 1, Len(strs) - 1)) \o "#" \o strs[Len(strs)]

\* C8: with a composite sort key (related-type index longer than 2) the
\* sort-key value expression is the separator-joined list of the placeholders
\* of all local fields after the first, in declared order, and the value sent
\* with a Query is the separator-joined list of their live values.
C8_CompositeSortKeyValue ==
    /\ \A key \in DOMAIN resolvers :
          Len(ConfigOfKey(key).relatedTypeIndex) > 2 =>
              LET fs == SortSourceFields(key)
                  e == resolvers[key].expressionValues
              IN  /\ Len(e) = 2
                  /\ e[2].name = ":sortKeyName"
                  /\ Text(e[2].expr.operand) =
                        SepJoined([i \in DOMAIN fs |-> "${ctx.source." \o fs[i] \o "}"])
    /\ (inv.stage = "request" /\ inv.reqOut.kind = "query"
            /\ Len(ConfigOfKey(inv.key).relatedTypeIndex) > 2) =>
          LET fs == SortSourceFields(inv.key)
          IN  inv.reqOut.request.expressionValues[2].value =
                 [attrType |-> "S",
                  attrValue |-> SepJoined([i \in DOMAIN fs |-> inv.ctx.source[fs[i]].v])]

\* a Query of a composite-key resolver whose sort-key source fields are set
C8_Witness ==
    /\ inv.stage = "request" /\ inv.reqOut.kind = "query"
    /\ Len(ConfigOfKey(inv.key).relatedTypeIndex) > 2
    /\ \A i \in DOMAIN SortSourceFields(inv.key) :
          inv.ctx.source[SortSourceFields(inv.key)[i]].v # ""

\* C9: for two or more sort-key fields, the attribute name the reconciler
\* declares and the value expression the synthesizer builds are the same
\* separator join over the same field order: the name joins the fields'
\* connection attribute names, the expression joins the fields' placeholders.
C9_CondensationAgrees ==
    (Len(keyInput) >= 2 /\ declaredKey # NoDeclaredKey /\ keyValueExpr # NoKeyValueExpr) =>
        /\ declaredKey.name =
              SepJoined([i \in DOMAIN keyInput |->
                            getConnectionAttributeName(TRUE, "Author", "books", keyInput[i])])
        /\ Len(keyValueExpr) = 1
        /\ Text(keyValueExpr[1].expr.operand) =
              SepJoined([i \in DOMAIN keyInput |-> "${ctx.source." \o keyInput[i] \o "}"])

C9_Witness ==
    /\ Len(keyInput) = 3
    /\ declaredKey # NoDeclaredKey /\ keyValueExpr # NoKeyValueExpr
    /\ declaredKey.type = "S"
    /\ keyValueExpr[1].expr.kind = "composite"

(***************************************************************************)
(* Primary-key transformer properties (SpecPK).                            *)
(***************************************************************************)
CollectedKeys == { ConfigKey(directiveList[i]) : i \in DOMAIN directiveList }

\* C10: fail fast. A configuration is in directiveList only if validate
\* returned normally for its directive; transformSchema and generateResolvers
\* act on collected configurations only, and only after every directive has
\* been visited; once a validate call has thrown, no schema update and no
\* generator run exists for any configuration.
C10_FailFast ==
    /\ Len(directiveList) = Cardinality(pkValidated)
    /\ \A i \in DOMAIN directiveList :
          /\ i \in pkValidated
          /\ ConfigKey(directiveList[i]) = ConfigKey(ConfigAt(pkSchema, Directives(pkSchema)[i]))
    /\ Range(schemaUpdated) \subseteq CollectedKeys
    /\ { pkGenerated[i].config : i \in DOMAIN pkGenerated } \subseteq CollectedKeys
    /\ (schemaUpdated # <<>> \/ pkGenerated # <<>>) =>
          /\ pkError = ""
          /\ pkValidated = DOMAIN Directives(pkSchema)
    /\ (pkPhase = "failed" \/ pkError # "") =>
          /\ schemaUpdated = <<>>
          /\ pkGenerated = <<>>
          /\ pkPos \notin pkValidated

\* a valid first directive was collected, the second one failed validation,
\* and nothing was synthesized for either
C10_Witness ==
    /\ pkPhase = "failed"
    /\ pkError # ""
    /\ Len(directiveList) = 1
    /\ pkPos = 2
    /\ schemaUpdated = <<>>
    /\ pkGenerated = <<>>

(***************************************************************************)
(* Validator properties (SpecPK).  The failures are identified by the      *)
(* message of the InvalidDirectiveError thrown.                            *)
(***************************************************************************)
MissingModelMessage ==
    "The @primaryKey directive may only be added to object definitions annotated with @model."

DuplicatePrimaryKeyMessage(T) == "You may only supply one primary key on type '" \o T \o "'."

NullablePrimaryKeyMessage(T) == "The primary key on type '" \o T \o "' must reference non-null fields."

InvalidPrimaryKeyTypeMessage(T, f) ==
    "The primary key on type '" \o T \o "." \o f \o "' cannot be a non-scalar."

UnknownSortKeyFieldMessage(T, n) ==
    "Can't find field '" \o n \o "' in " \o T \o ", but it was specified in the primary key."

InvalidSortKeyTypeMessage(T, n) ==
    "The primary key's sort key on type '" \o T \o "." \o n \o "' cannot be a non-scalar."

SortKeyOwnerConflictMessage(n) ==
    "The primary key's sort key type '" \o n
    \o "' cannot be used as an owner @auth field too. Please use another field for the sort key."

SelfReferenceMessage(f) == "@primaryKey field '" \o f \o "' cannot reference itself."

\* the configuration of the i-th @primaryKey directive of the schema
ConfigOf(i) == ConfigAt(pkSchema, Directives(pkSchema)[i])

\* field() has been called for the i-th directive
Visited(i) == i \in pkValidated \/ (pkPhase = "failed" /\ i = pkPos)

\* the visit of the i-th directive ended with this failure
RejectedWith(i, message) == pkPhase = "failed" /\ pkPos = i /\ pkError = message

Rejected(i) == pkPhase = "failed" /\ pkPos = i /\ pkError # ""

CollectedCount(c) ==
    Cardinality({ j \in DOMAIN directiveList : ConfigKey(directiveList[j]) = ConfigKey(c) })

SelfReferencing(c) == \E k \in DOMAIN c.sortKeyFields : c.sortKeyFields[k] = c.field.name

PrimaryKeyFieldCount(object) ==
    Cardinality({ j \in DOMAIN object.fields : object.fields[j].primaryKey })

KeyTypeOk(type) == type.nonNull /\ ~type.list /\ type.base \in {"scalar", "enum"}

IsFieldOf(object, n) == \E j \in DOMAIN object.fields : object.fields[j].name = n

TheField(object, n) == object.fields[CHOOSE j \in DOMAIN object.fields : object.fields[j].name = n]

\* the name is a field that passes every sort-key check
SortKeyNameOk(object, n) ==
    /\ IsFieldOf(object, n)
    /\ KeyTypeOk(TheField(object, n).type)
    /\ ~TheField(object, n).owner

\* the checks that precede the sort-key loop all pass
HeadChecksPass(c) ==
    /\ ~SelfReferencing(c)
    /\ c.object.hasModel
    /\ PrimaryKeyFieldCount(c.object) = 1
    /\ KeyTypeOk(c.field.type)

\* the sort-key names before position k all pass their checks
EarlierSortKeysOk(c, k) == \A m \in 1..(k - 1) : SortKeyNameOk(c.object, c.sortKeyFields[m])

\* C11: a visited directive whose type has no @model and that is not
\* self-referencing is rejected with the missing-model failure, whatever its
\* field type and sort-key fields.
C11_MissingModel ==
    \A i \in DOMAIN Directives(pkSchema) :
        (Visited(i) /\ ~ConfigOf(i).object.hasModel /\ ~SelfReferencing(ConfigOf(i)))
            => RejectedWith(i, MissingModelMessage)

\* a type without @model, with a list-typed key field and an unknown sort key,
\* was rejected for the missing model
C11_Witness ==
    /\ pkPhase = "failed"
    /\ ~ConfigOf(pkPos).object.hasModel
    /\ ConfigOf(pkPos).field.type.list
    /\ ConfigOf(pkPos).sortKeyFields = << "zz" >>
    /\ pkError = MissingModelMessage

\* C12 as stated: on a @model type with two @primaryKey fields the directive
\* visited first is rejected with the duplicate-primary-key failure.
C12_Original ==
    \A i \in DOMAIN Directives(pkSchema) :
        (Visited(i) /\ ConfigOf(i).object.hasModel /\ PrimaryKeyFieldCount(ConfigOf(i).object) >= 2)
            => RejectedWith(i, DuplicatePrimaryKeyMessage(ConfigOf(i).object.name))

\* C12: on a @model type with two @primaryKey fields the directive visited
\* first is rejected, with the duplicate-primary-key failure unless it names
\* its own field as a sort key; no configuration of that type is collected;
\* a type with exactly one @primaryKey field never raises the duplicate failure.
C12_DuplicateOnFirstVisited ==
    \A i \in DOMAIN Directives(pkSchema) :
        LET c == ConfigOf(i)
        IN  /\ (Visited(i) /\ c.object.hasModel /\ PrimaryKeyFieldCount(c.object) >= 2) =>
                 /\ Rejected(i)
                 /\ ~SelfReferencing(c) => pkError = DuplicatePrimaryKeyMessage(c.object.name)
                 /\ \A j \in DOMAIN directiveList : directiveList[j].object.name # c.object.name
            /\ (Visited(i) /\ PrimaryKeyFieldCount(c.object) = 1) =>
                 pkError # DuplicatePrimaryKeyMessage(c.object.name)

\* the first of two @primaryKey fields of a @model type was visited and
\* rejected as a duplicate
C12_Witness ==
    /\ pkPhase = "failed"
    /\ ConfigOf(pkPos).object.hasModel
    /\ PrimaryKeyFieldCount(ConfigOf(pkPos).object) = 2
    /\ ConfigOf(pkPos).field.name = "id"
    /\ pkError = DuplicatePrimaryKeyMessage("Thing")
    /\ directiveList = <<>>

\* C13 as stated: an accepted key field is non-null, scalar-or-enum and not a
\* list; a nullable one is rejected with the nullable-primary-key failure, a
\* non-null list or object one with the invalid-primary-key-type failure.
C13_Original ==
    \A i \in DOMAIN Directives(pkSchema) :
        LET c == ConfigOf(i)
        IN  /\ i \in pkValidated => KeyTypeOk(c.field.type)
            /\ (Visited(i) /\ ~c.field.type.nonNull) =>
                 RejectedWith(i, NullablePrimaryKeyMessage(c.object.name))
            /\ (Visited(i) /\ c.field.type.nonNull /\ ~KeyTypeOk(c.field.type)) =>
                 RejectedWith(i, InvalidPrimaryKeyTypeMessage(c.object.name, c.field.name))

\* C13: an accepted key field is non-null, scalar-or-enum and not a list; a
\* directive with any other key field type is rejected, and when the earlier
\* checks pass (no self reference, @model present, a single @primaryKey) the
\* failure is nullable-primary-key for a nullable field and
\* invalid-primary-key-type for a non-null list or object field.
C13_KeyFieldType ==
    \A i \in DOMAIN Directives(pkSchema) :
        LET c == ConfigOf(i)
            reached == ~SelfReferencing(c) /\ c.object.hasModel /\ PrimaryKeyFieldCount(c.object) = 1
        IN  /\ i \in pkValidated => KeyTypeOk(c.field.type)
            /\ (Visited(i) /\ ~KeyTypeOk(c.field.type)) => Rejected(i)
            /\ (Visited(i) /\ reached /\ ~c.field.type.nonNull) =>
                 RejectedWith(i, NullablePrimaryKeyMessage(c.object.name))
            /\ (Visited(i) /\ reached /\ c.field.type.nonNull /\ ~KeyTypeOk(c.field.type)) =>
                 RejectedWith(i, InvalidPrimaryKeyTypeMessage(c.object.name, c.field.name))

\* a non-null list key field of an otherwise valid type was rejected for its type
C13_Witness ==
    /\ pkPhase = "failed"
    /\ ConfigOf(pkPos).object.hasModel
    /\ ConfigOf(pkPos).field.type = TypeStringList
    /\ pkError = InvalidPrimaryKeyTypeMessage("Thing", "id")

\* C14 as stated: a directive with a sort-key name that is not a field of its
\* type is rejected with the unknown-sort-key-field failure and not collected.
C14_Original ==
    \A i \in DOMAIN Directives(pkSchema) :
        LET c == ConfigOf(i)
            unknown == { k \in DOMAIN c.sortKeyFields : ~IsFieldOf(c.object, c.sortKeyFields[k]) }
        IN  (Visited(i) /\ unknown # {}) =>
                /\ \E k \in unknown :
                      RejectedWith(i, UnknownSortKeyFieldMessage(c.object.name, c.sortKeyFields[k]))
                /\ CollectedCount(c) = 0

\* C14: every sort-key name of an accepted directive is a field of its type; a
\* directive with a name that is not is rejected and not collected, and when
\* the earlier checks and the earlier sort-key names pass, the failure is
\* unknown-sort-key-field for that name.
C14_UnknownSortKeyField ==
    \A i \in DOMAIN Directives(pkSchema) :
        LET c == ConfigOf(i)
        IN  /\ i \in pkValidated =>
                 \A k \in DOMAIN c.sortKeyFields : IsFieldOf(c.object, c.sortKeyFields[k])
            /\ \A k \in DOMAIN c.sortKeyFields :
                 (Visited(i) /\ ~IsFieldOf(c.object, c.sortKeyFields[k])) =>
                    /\ Rejected(i)
                    /\ CollectedCount(c) = 0
                    /\ (HeadChecksPass(c) /\ EarlierSortKeysOk(c, k)) =>
                          pkError = UnknownSortKeyFieldMessage(c.object.name, c.sortKeyFields[k])

\* a second sort-key name that is no field was rejected after a valid first one
C14_Witness ==
    /\ pkPhase = "failed"
    /\ ConfigOf(pkPos).sortKeyFields = << "b", "zz" >>
    /\ pkError = UnknownSortKeyFieldMessage("Thing", "zz")
    /\ CollectedCount(ConfigOf(pkPos)) = 0

\* C15: when validation reaches a sort-key field that is nullable, a list or
\* not scalar-or-enum, the directive is rejected with the
\* invalid-sort-key-type failure.
C15_InvalidSortKeyType ==
    \A i \in DOMAIN Directives(pkSchema) :
        LET c == ConfigOf(i)
        IN  \A k \in DOMAIN c.sortKeyFields :
              ( /\ Visited(i)
                /\ HeadChecksPass(c)
                /\ EarlierSortKeysOk(c, k)
                /\ IsFieldOf(c.object, c.sortKeyFields[k])
                /\ ~KeyTypeOk(TheField(c.object, c.sortKeyFields[k]).type) )
              => RejectedWith(i, InvalidSortKeyTypeMessage(c.object.name, c.sortKeyFields[k]))

\* C17 as stated: a directive with a sort-key field that is an owner field is
\* rejected with the sort-key/owner-conflict failure, is not collected and
\* nothing is generated for it.
C17_Original ==
    \A i \in DOMAIN Directives(pkSchema) :
        LET c == ConfigOf(i)
            owners == { k \in DOMAIN c.sortKeyFields :
                          /\ IsFieldOf(c.object, c.sortKeyFields[k])
                          /\ TheField(c.object, c.sortKeyFields[k]).owner }
        IN  (Visited(i) /\ owners # {}) =>
                /\ \E k \in owners : RejectedWith(i, SortKeyOwnerConflictMessage(c.sortKeyFields[k]))
                /\ CollectedCount(c) = 0
                /\ schemaUpdated = <<>> /\ pkGenerated = <<>>

\* C17: a directive with a sort-key field that is an owner field is rejected,
\* is not collected and nothing is generated; when the earlier checks, the
\* earlier sort-key names and the field's own type checks pass, the failure
\* is sort-key/owner-conflict for that field.
C17_OwnerConflict ==
    \A i \in DOMAIN Directives(pkSchema) :
        LET c == ConfigOf(i)
        IN  \A k \in DOMAIN c.sortKeyFields :
              ( /\ Visited(i)
                /\ IsFieldOf(c.object, c.sortKeyFields[k])
                /\ TheField(c.object, c.sortKeyFields[k]).owner )
              => /\ Rejected(i)
                 /\ CollectedCount(c) = 0
                 /\ schemaUpdated = <<>> /\ pkGenerated = <<>>
                 /\ ( /\ HeadChecksPass(c)
                      /\ EarlierSortKeysOk(c, k)
                      /\ KeyTypeOk(TheField(c.object, c.sortKeyFields[k]).type) )
                    => pkError = SortKeyOwnerConflictMessage(c.sortKeyFields[k])

\* an owner field used as the second sort key was rejected for the conflict,
\* after a valid first type had been collected; nothing was generated
C17_Witness ==
    /\ pkPhase = "failed"
    /\ Len(pkSchema) = 2
    /\ ConfigOf(pkPos).sortKeyFields = << "b", "a" >>
    /\ pkError = SortKeyOwnerConflictMessage("a")
    /\ CollectedCount(ConfigOf(pkPos)) = 0
    /\ Len(directiveList) = 1
    /\ pkGenerated = <<>>

\* the claim's precondition: @model type, non-null scalar key field, every
\* sort-key name a non-null scalar-or-enum non-list field that is no owner field
C18_Precondition(c) ==
    /\ c.object.hasModel
    /\ c.field.type.nonNull /\ ~c.field.type.list /\ c.field.type.base = "scalar"
    /\ \A k \in DOMAIN c.sortKeyFields : SortKeyNameOk(c.object, c.sortKeyFields[k])

\* the accepted directive is collected once with its sort keys resolved in order
C18_Accepted(i) ==
    /\ i \in pkValidated
    /\ CollectedCount(ConfigOf(i)) = 1
    /\ \A j \in DOMAIN directiveList :
          ConfigKey(directiveList[j]) = ConfigKey(ConfigOf(i))
             => directiveList[j].sortKey = ConfigOf(i).sortKeyFields

\* C18 as stated: a directive satisfying the precondition passes validation,
\* is collected exactly once, and its resolved sort-key list equals
\* sortKeyFields in length and order.
C18_Original ==
    \A i \in DOMAIN Directives(pkSchema) :
        (Visited(i) /\ C18_Precondition(ConfigOf(i))) => C18_Accepted(i)

\* C18: the same, for a directive that is the only @primaryKey of its type
\* and does not name its own field as a sort key.
C18_ValidDirectiveAccepted ==
    \A i \in DOMAIN Directives(pkSchema) :
        ( /\ Visited(i)
          /\ C18_Precondition(ConfigOf(i))
          /\ PrimaryKeyFieldCount(ConfigOf(i).object) = 1
          /\ ~SelfReferencing(ConfigOf(i)) )
        => C18_Accepted(i)

\* two valid directives were collected, the second with two sort keys in the
\* declared order
C18_Witness ==
    /\ Len(directiveList) = 2
    /\ directiveList[1].sortKey = << "createdAt" >>
    /\ directiveList[2].sortKeyFields = << "b", "a" >>
    /\ directiveList[2].sortKey = << "b", "a" >>
    /\ pkValidated = {1, 2}

Checks ==
    { "self reference", "missing model", "duplicate primary key", "nullable primary key",
      "invalid primary-key type", "unknown sort-key field", "invalid sort-key type",
      "sort-key/owner conflict" }

\* the first sort-key name that does not pass its checks, 0 if all pass
FirstBadSortKey(c) ==
    IF \A k \in DOMAIN c.sortKeyFields : SortKeyNameOk(c.object, c.sortKeyFields[k]) THEN 0
    ELSE CHOOSE k \in DOMAIN c.sortKeyFields :
            /\ ~SortKeyNameOk(c.object, c.sortKeyFields[k])
            /\ EarlierSortKeysOk(c, k)

\* the check a configuration violates first, "none" for a valid one
FirstViolatedCheck(c) ==
    IF SelfReferencing(c) THEN "self reference"
    ELSE IF ~c.object.hasModel THEN "missing model"
    ELSE IF PrimaryKeyFieldCount(c.object) >= 2 THEN "duplicate primary key"
    ELSE IF ~c.field.type.nonNull THEN "nullable primary key"
    ELSE IF ~KeyTypeOk(c.field.type) THEN "invalid primary-key type"
    ELSE IF FirstBadSortKey(c) = 0 THEN "none"
    ELSE LET n == c.sortKeyFields[FirstBadSortKey(c)]
         IN  IF ~IsFieldOf(c.object, n) THEN "unknown sort-key field"
             ELSE IF ~KeyTypeOk(TheField(c.object, n).type) THEN "invalid sort-key type"
             ELSE "sort-key/owner conflict"

\* the failures validate raises for type Thing, by the check violated
MessagesByCheck ==
    [ ck \in Checks |->
        { validate(ConfigAt(<< t >>, [ti |-> 1, fi |-> 1])).error :
            t \in { u \in ThingTypes :
                      FirstViolatedCheck(ConfigAt(<< u >>, [ti |-> 1, fi |-> 1])) = ck } } ]

\* C16: the failure a rejected directive raises is raised by no other check
\* for the same type, so the failure tells which check was violated.
C16_DistinctFailures ==
    pkPhase = "failed" =>
        \A ck \in Checks \ { FirstViolatedCheck(ConfigOf(pkPos)) } :
            pkError \notin MessagesByCheck[ck]

(***************************************************************************)
(* Generator properties (SpecPK).                                          *)
(***************************************************************************)
\* C19: generateResolvers runs one generator for each collected
\* configuration: the RDS generator iff the datasource entry of the
\* configuration's type has dbType MySQL, the DynamoDB generator otherwise,
\* also for a type with no entry; every slot call of a configuration comes
\* from that generator.
C19_GeneratorDispatch ==
    /\ pkPhase # "generated" => pkGenerated = <<>>
    /\ pkPhase = "generated" =>
          /\ Len(pkGenerated) = Len(directiveList)
          /\ \A i \in DOMAIN pkGenerated :
                /\ pkGenerated[i].config = ConfigKey(directiveList[i])
                /\ pkGenerated[i].generator \in
                      {"RDSPrimaryKeyVTLGenerator", "DynamoDBPrimaryKeyVTLGenerator"}
                /\ pkGenerated[i].generator = "RDSPrimaryKeyVTLGenerator"
                      <=> pkGenerated[i].dbInfo = "MySQL"
                /\ \A k \in DOMAIN slotCalls :
                      slotCalls[k].config = pkGenerated[i].config
                         => slotCalls[k].generator = pkGenerated[i].generator

\* one type on MySQL got the RDS generator, one without a datasource entry
\* the DynamoDB generator, and both contributed snippets
C19_Witness ==
    /\ pkPhase = "generated"
    /\ Len(pkGenerated) = 2
    /\ pkGenerated[1].dbInfo = "MySQL"
    /\ pkGenerated[1].generator = "RDSPrimaryKeyVTLGenerator"
    /\ pkGenerated[2].dbInfo = "none"
    /\ pkGenerated[2].generator = "DynamoDBPrimaryKeyVTLGenerator"
    /\ \E k \in DOMAIN slotCalls : slotCalls[k].config = pkGenerated[1].config
    /\ \E k \in DOMAIN slotCalls : slotCalls[k].config = pkGenerated[2].config

MutationResolvers ==
    { slotCalls[k].resolver : k \in { j \in DOMAIN slotCalls :
                                        slotCalls[j].op \in {"create", "update", "delete"} } }

SnippetRank(kind) ==
    IF kind = "validation" THEN 1
    ELSE IF kind = "merge-defaults" THEN 2
    ELSE IF kind = "set-key" THEN 3
    ELSE IF kind = "ensure-composite-key" THEN 4
    ELSE 0

\* the position of a collected configuration in directiveList
CallIndex(key) == CHOOSE i \in DOMAIN directiveList : ConfigKey(directiveList[i]) = key

\* C20: in the slot of every mutation resolver the snippets of one directive
\* are of the kinds validation, merge-defaults, set-key, ensure-composite-key
\* and stand in that relative order, and the snippets of different generate
\* calls stand in call order.
C20_MutationSnippetOrder ==
    \A r \in MutationResolvers :
        LET slot == SlotOf(r)
        IN  \A p, q \in DOMAIN slot :
              p < q =>
                /\ SnippetRank(slot[p].kind) > 0 /\ SnippetRank(slot[q].kind) > 0
                /\ CallIndex(slot[p].config) <= CallIndex(slot[q].config)
                /\ slot[p].config = slot[q].config
                      => SnippetRank(slot[p].kind) < SnippetRank(slot[q].kind)

\* two RDS generate calls contributed to the same create resolver: its slot
\* holds the three snippets of the first directive, then those of the second
C20_Witness ==
    /\ pkPhase = "generated"
    /\ "Mutation.createItem" \in MutationResolvers
    /\ Len(SlotOf("Mutation.createItem")) = 6
    /\ \A k \in DOMAIN slotCalls : slotCalls[k].generator = "RDSPrimaryKeyVTLGenerator"
    /\ SlotOf("Mutation.createItem")[3].config = "Order.id"
    /\ SlotOf("Mutation.createItem")[4].config = "Thing.id"

\* the collected configuration a slot call was made for
ConfigOfCall(call) == directiveList[CallIndex(call.config)]

RDSCalls == { k \in DOMAIN slotCalls : slotCalls[k].generator = "RDSPrimaryKeyVTLGenerator" }

\* C21: every call of the RDS generator carries exactly one set-key snippet,
\* whose keys are the primary-key field name followed by the sortKeyFields
\* entries in declared order, and no snippet that builds a key condition.
C21_SetKeyMetadata ==
    \A k \in RDSCalls :
        LET lines == slotCalls[k].lines
            c == ConfigOfCall(slotCalls[k])
            setKeys == { n \in DOMAIN lines : lines[n].kind = "set-key" }
        IN  /\ Cardinality(setKeys) = 1
            /\ \A n \in setKeys :
                  /\ Len(lines[n].keys) = 1 + Len(c.sortKeyFields)
                  /\ lines[n].keys[1] = c.field.name
                  /\ \A m \in DOMAIN c.sortKeyFields : lines[n].keys[m + 1] = c.sortKeyFields[m]
            /\ \A n \in DOMAIN lines : lines[n].kind \notin {"key-condition", "get-key"}

\* an RDS call for a directive with two sort keys recorded the three key names
C21_Witness ==
    \E k \in RDSCalls :
        /\ slotCalls[k].config = "Thing.id"
        /\ slotCalls[k].op = "create"
        /\ ConfigOfCall(slotCalls[k]).sortKeyFields = << "b", "a" >>
        /\ slotCalls[k].lines[2].keys = << "id", "b", "a" >>

\* the snippet kinds the claim lists for each operation
C29_ExpectedKinds(op) ==
    IF op = "get" THEN << "set-key" >>
    ELSE IF op = "list" THEN << "set-key", "sort-direction-validation" >>
    ELSE IF op = "delete" THEN << "merge-defaults", "set-key" >>
    ELSE << "merge-defaults", "set-key", "ensure-composite-key" >>

\* C29: for a configuration handled by the RDS generator there is exactly
\* one slot call per operation that has a resolver and none for an operation
\* without one; each call goes to that operation's resolver and carries
\* exactly the snippets listed for the operation, whichever other resolvers
\* exist.
C29_RDSPerOperation ==
    \A i \in DOMAIN pkGenerated :
        pkGenerated[i].generator = "RDSPrimaryKeyVTLGenerator" =>
            LET calls == { k \in DOMAIN slotCalls : slotCalls[k].config = pkGenerated[i].config }
            IN  /\ \A op \in Range(Operations) :
                      Cardinality({ k \in calls : slotCalls[k].op = op })
                         = (IF op \in pkGenerated[i].existing THEN 1 ELSE 0)
                /\ \A k \in calls :
                      /\ slotCalls[k].resolver # ""
                      /\ [n \in DOMAIN slotCalls[k].lines |-> slotCalls[k].lines[n].kind]
                            = C29_ExpectedKinds(slotCalls[k].op)

\* with no update resolver, the RDS generator served get, list, create and
\* delete and made no call for update
C29_Witness ==
    \E i \in DOMAIN pkGenerated :
        /\ pkGenerated[i].generator = "RDSPrimaryKeyVTLGenerator"
        /\ pkGenerated[i].existing = {"get", "list", "create", "delete"}
        /\ Cardinality({ k \in DOMAIN slotCalls : slotCalls[k].config = pkGenerated[i].config }) = 4
        /\ \E k \in DOMAIN slotCalls :
              /\ slotCalls[k].config = pkGenerated[i].config
              /\ slotCalls[k].op = "delete"
              /\ Len(slotCalls[k].lines) = 2

\* the failure of the first violated check in the order self reference,
\* missing model, duplicate primary key, nullable primary key, invalid
\* primary-key type, then per sort-key field in declared order: unknown field,
\* non-scalar or list type, nullable, owner conflict; "" for no violation
C28_FirstFailure(c) ==
    LET T == c.object.name
        k == FirstBadSortKey(c)
    IN  IF SelfReferencing(c) THEN SelfReferenceMessage(c.field.name)
        ELSE IF ~c.object.hasModel THEN MissingModelMessage
        ELSE IF PrimaryKeyFieldCount(c.object) >= 2 THEN DuplicatePrimaryKeyMessage(T)
        ELSE IF ~c.field.type.nonNull THEN NullablePrimaryKeyMessage(T)
        ELSE IF c.field.type.list \/ c.field.type.base = "object"
             THEN InvalidPrimaryKeyTypeMessage(T, c.field.name)
        ELSE IF k = 0 THEN ""
        ELSE IF ~IsFieldOf(c.object, c.sortKeyFields[k])
             THEN UnknownSortKeyFieldMessage(T, c.sortKeyFields[k])
        ELSE IF TheField(c.object, c.sortKeyFields[k]).type.list
                \/ TheField(c.object, c.sortKeyFields[k]).type.base = "object"
             THEN InvalidSortKeyTypeMessage(T, c.sortKeyFields[k])
        ELSE IF ~TheField(c.object, c.sortKeyFields[k]).type.nonNull
             THEN NullablePrimaryKeyMessage(T)
        ELSE SortKeyOwnerConflictMessage(c.sortKeyFields[k])

\* C28: a visited directive is rejected with the failure of the first check
\* it violates in the fixed order, and with nothing else; a directive that
\* violates no check is accepted.
C28_FirstViolationReported ==
    \A i \in DOMAIN Directives(pkSchema) :
        Visited(i) =>
            IF C28_FirstFailure(ConfigOf(i)) = "" THEN i \in pkValidated
            ELSE RejectedWith(i, C28_FirstFailure(ConfigOf(i)))

\* a directive with a nullable object key field, a nullable first sort key and
\* an unknown second sort key was rejected for the nullable key field
C28_Witness ==
    /\ pkPhase = "failed"
    /\ ConfigOf(pkPos).object.hasModel
    /\ PrimaryKeyFieldCount(ConfigOf(pkPos).object) = 1
    /\ ConfigOf(pkPos).field.type = TypeObjectNullable
    /\ ConfigOf(pkPos).sortKeyFields = << "a", "zz" >>
    /\ ~TheField(ConfigOf(pkPos).object, "a").type.nonNull
    /\ pkError = NullablePrimaryKeyMessage("Thing")

C23_IndexesPreserved ==
    [][\A t \in Tables :
          /\ Len(l2'[t]) \in {Len(l2[t]), Len(l2[t]) + 1}
          /\ SubSeq(l2'[t], 1, Len(l2[t])) = l2[t]
          /\ Len(l1'[t]) \in {Len(l1[t]), Len(l1[t]) + 1}
          /\ SubSeq(l1'[t], 1, Len(l1[t])) = l1[t]]_vars

\* a call added an index to a table whose lists already held another one,
\* which is still the first entry of both lists
C23_Witness ==
    /\ lastCall.kind = "call"
    /\ lastCall.outcome = "added"
    /\ Len(l2[TableOf(lastCall.rel)]) >= 2
    /\ Len(l1[TableOf(lastCall.rel)]) >= 2
    /\ l2[TableOf(lastCall.rel)][1].indexName \in {"byTitle", "byDate"}
    /\ l1[TableOf(lastCall.rel)][1].indexName = l2[TableOf(lastCall.rel)][1].indexName

\* the index the last call added
C24_Added == FindIndex(l2[TableOf(lastCall.rel)], DerivedIndexName(lastCall.rel))

\* the attribute type of a scalar key field
C24_Inferred(type) == IF type \in {"Int", "Float"} THEN "N" ELSE "S"

\* C24 as stated: the partition key type of an added index is inferred from
\* the primary key of the related type when the flag is on, and is 'S' when
\* the flag is off.
C24_Original ==
    (lastCall.kind = "call" /\ lastCall.outcome = "added") =>
        C24_Added.partitionKey.type =
            IF respectPK
            THEN C24_Inferred(ObjectDefs[lastCall.rel.relatedType].primaryKey.type)
            ELSE "S"

\* C24, amended: the partition key type of an added index is inferred from
\* the primary key of the type that declares the @hasMany field when the flag
\* is on, and is 'S' when the flag is off, whatever that primary key's type.
C24_PartitionKeyType ==
    (lastCall.kind = "call" /\ lastCall.outcome = "added") =>
        /\ C24_Added.partitionKey.type =
              IF respectPK
              THEN C24_Inferred(ObjectDefs[lastCall.rel.object].primaryKey.type)
              ELSE "S"
        /\ C24_Added.keySchema[1] =
              [attributeName |-> C24_Added.partitionKey.name, keyType |-> "HASH"]

\* with the flag on, Post.comments added an index on the Comment table whose
\* partition key has the numeric type of Post's primary key, not the string
\* type of Comment's
C24_Witness ==
    /\ respectPK
    /\ lastCall.kind = "call"
    /\ lastCall.outcome = "added"
    /\ lastCall.rel.object = "Post"
    /\ lastCall.rel.relatedType = "Comment"
    /\ C24_Added.partitionKey = [name |-> "articleCommentsPostId", type |-> "N"]

\* the index the last call added
C25_Added == FindIndex(l2[TableOf(lastCall.rel)], DerivedIndexName(lastCall.rel))

\* the sort key the declared sort-key fields of the last call's object give:
\* none, the one field's connection attribute with its inferred type, or the
\* '#'-joined connection attributes in declared order with type 'S'
C25_Derived ==
    LET rel == lastCall.rel
        fields == ObjectDefs[rel.object].sortKeyFields
        names == [i \in DOMAIN fields |->
                    getConnectionAttributeName(respectPK, getModelNameMapping(rel.object),
                                               rel.field, fields[i].name)]
    IN  IF Len(fields) = 0 THEN NoKey
        ELSE IF Len(fields) = 1
             THEN [name |-> names[1],
                   type |-> IF fields[1].type \in {"Int", "Float"} THEN "N" ELSE "S"]
        ELSE [name |-> Join(names, "#"), type |-> "S"]

\* C25 as stated: the sort key of an added index is the one derived from the
\* declared sort-key fields.
C25_Original ==
    (lastCall.kind = "call" /\ lastCall.outcome = "added") =>
        C25_Added.sortKey = C25_Derived

\* C25, amended: with the flag on, the sort key of an added index is the one
\* derived from the declared sort-key fields of the type that declares the
\* @hasMany field; with the flag off the index has no sort key.
C25_SortKey ==
    (lastCall.kind = "call" /\ lastCall.outcome = "added") =>
        /\ C25_Added.sortKey = IF respectPK THEN C25_Derived ELSE NoKey
        /\ Len(C25_Added.keySchema) = IF C25_Added.sortKey = NoKey THEN 1 ELSE 2
        /\ C25_Added.sortKey # NoKey =>
              C25_Added.keySchema[2] =
                  [attributeName |-> C25_Added.sortKey.name, keyType |-> "RANGE"]

\* with the flag on, Author.books added an index whose sort key condenses the
\* two sort-key fields of Author, the second of them numeric
C25_Witness ==
    /\ respectPK
    /\ lastCall.kind = "call"
    /\ lastCall.outcome = "added"
    /\ lastCall.rel.object = "Author"
    /\ C25_Added.sortKey = [name |-> "authorBooksFirst#authorBooksAge", type |-> "S"]

\* C26: a call of updateTableForConnection that aborts with an error leaves
\* both index lists of every table and the relation configurations as they
\* were, hands back the configuration it was given with its indexName
\* untouched, and a retry with that configuration fails like the first call.
C26_FailureCommitsNothing ==
    [][(lastCall'.kind = "call" /\ lastCall'.outcome = "threw") =>
          /\ l2' = l2 /\ l1' = l1 /\ l1IsArray' = l1IsArray
          /\ cfg' = cfg
          /\ lastCall'.after = lastCall'.before
          /\ Reconcile(lastCall'.after, lastCall'.rel, respectPK,
                       l2'[TableOf(lastCall'.rel)], l1'[TableOf(lastCall'.rel)],
                       l1IsArray'[TableOf(lastCall'.rel)]).outcome = "threw"]_vars

\* the partition-key value of an invocation: the stashed connection attribute
\* when it is non-null, the source field otherwise
C27_Resolved(key, ctx) ==
    IF ctx.connectionAttribute # VNull THEN ctx.connectionAttribute
    ELSE ctx.source[PartitionSourceField(key)]

\* the key parts of an invocation: the resolved partition-key value, then the
\* sort-key source fields
C27_KeyParts(key, ctx) ==
    << C27_Resolved(key, ctx) >>
    \o [i \in DOMAIN SortSourceFields(key) |-> ctx.source[SortSourceFields(key)[i]]]

\* C27: the request program builds a Query only when the resolved
\* partition-key value and every sort-key source field are non-null, and
\* returns early with no request as soon as one of them is null; the
\* partition value of a Query is the stashed connection attribute when that is
\* non-null and the source field otherwise; and a Query carries the sentinel
\* only in place of a blank string, never in place of a null key part.
C27_QueryOnlyWithAllKeyParts ==
    inv.stage = "request" =>
        LET parts == C27_KeyParts(inv.key, inv.ctx)
            anyNull == \E i \in DOMAIN parts : parts[i] = VNull
            values == inv.reqOut.request.expressionValues
        IN  /\ anyNull => (inv.reqOut.kind = "return" /\ inv.reqOut.request = NoRequest)
            /\ inv.reqOut.kind = "query" =>
                  /\ ~anyNull
                  /\ values[1].name = ":partitionValue"
                  /\ values[1].value =
                        [attrType |-> parts[1].t,
                         attrValue |-> IF parts[1] = VStr("") THEN NONE_VALUE ELSE parts[1].v]
                  /\ \A i \in DOMAIN values :
                        values[i].value.attrValue = NONE_VALUE =>
                            /\ i = 1 \/ Len(parts) = 2
                            /\ parts[i] = VStr("")

\* the partition key came from the stash and one sort-key source field was
\* null while the other was set: the program returned without a Query
C27_Witness ==
    /\ inv.stage = "request" /\ ~inv.ctx.deniedField
    /\ inv.ctx.connectionAttribute = VStr("c")
    /\ inv.ctx.source[PartitionSourceField(inv.key)] = VNull
    /\ Len(SortSourceFields(inv.key)) = 2
    /\ inv.ctx.source[SortSourceFields(inv.key)[1]] = VStr("a")
    /\ inv.ctx.source[SortSourceFields(inv.key)[2]] = VNull
    /\ inv.reqOut.kind = "return"

\* the key-condition expression, its name placeholders and its value
\* placeholders for a related-type index of n fields
C30_Expected(n) ==
    IF n = 1
    THEN [expression |-> "#partitionKey = :partitionValue",
          names |-> << "#partitionKey" >>, values |-> << ":partitionValue" >>]
    ELSE [expression |-> "#partitionKey = :partitionValue AND #sortKeyName = :sortKeyName",
          names |-> << "#partitionKey", "#sortKeyName" >>,
          values |-> << ":partitionValue", ":sortKeyName" >>]

\* C30: a call with an empty related-type index fails, registers no resolver
\* and looks up no table; any other call looks up the table once and
\* registers exactly one resolver, under (type name, field name). A
\* registered resolver's key condition has one conjunct for an index of one
\* field and two for a longer one, and binds each of its name and value
\* placeholders exactly once.
C30_EmptyIndexFailsElseOneResolver ==
    /\ [](\A key \in DOMAIN resolvers :
            LET prog == resolvers[key]
                expected == C30_Expected(Len(ConfigOfKey(key).relatedTypeIndex))
            IN  /\ key = ResolverKey(prog.typeName, prog.fieldName)
                /\ prog.expression = expected.expression
                /\ [i \in DOMAIN prog.expressionNames |-> prog.expressionNames[i].name]
                      = expected.names
                /\ [i \in DOMAIN prog.expressionValues |-> prog.expressionValues[i].name]
                      = expected.values)
    /\ [][connPos <= Len(connSchema) /\ (connAborted' # connAborted \/ connPos' # connPos) =>
            IF Len(connSchema[connPos].relatedTypeIndex) = 0
            THEN /\ connAborted'
                 /\ resolvers' = resolvers
                 /\ tableLookups' = tableLookups
            ELSE /\ ~connAborted'
                 /\ tableLookups' = tableLookups + 1
                 /\ DOMAIN resolvers' =
                       DOMAIN resolvers
                       \cup {ResolverKey(connSchema[connPos].object, connSchema[connPos].field)}
                 /\ Cardinality(DOMAIN resolvers') = Cardinality(DOMAIN resolvers) + 1
                 /\ \A key \in DOMAIN resolvers : resolvers'[key] = resolvers[key]]_vars

\* a resolver over a three-field index was registered, with one table lookup,
\* and then the call for a configuration with an empty index failed
C30_Witness ==
    /\ connAborted
    /\ connPos = 2
    /\ Len(connSchema[2].relatedTypeIndex) = 0
    /\ tableLookups = 1
    /\ Cardinality(DOMAIN resolvers) = 1
    /\ \E key \in DOMAIN resolvers :
          /\ Len(ConfigOfKey(key).relatedTypeIndex) = 3
          /\ Len(resolvers[key].expressionValues) = 2

====
